---- MODULE Spec2Model ----
(***************************************************************************)
(* Transactional hierarchical configuration store (ion-vortex/engine,      *)
(* libs/core storage): the JSON and the TOML file stores, their            *)
(* transactions, the handle table and the save-to-file protocol.           *)
(*                                                                         *)
(* Strings of the program that the code inspects character by character    *)
(* (keys, path segments, path strings) are sequences of one-character      *)
(* strings: "ab" is <<"a","b">>.  Values of string nodes are opaque and    *)
(* stay TLA+ strings.  A double is held in tenths (15 is 1.5), so that the *)
(* int -> double conversion of nlohmann's get<double>() is i * 10.         *)
(***************************************************************************)
EXTENDS Integers, Sequences, FiniteSets, TLC

VARIABLES
  backend,   \* "json" or "toml": which store and transaction classes run
  store,     \* the store object: path_, data_ (canonical tree), is_open_
  fs,        \* the files: main[p] is the file at p, tmp[p] the one at p.tmp
  txn,       \* the transaction objects, by slot
  last,      \* the call that returned last and what it returned
  hist       \* history: what earlier commits and opens established

vars == <<backend, store, fs, txn, last, hist>>

-----------------------------------------------------------------------------
(* Bounds of the model                                                     *)

\* largest handle value a transaction may issue (next_handle_ is capped here)
MaxHandle == 2

Backends == {"json", "toml"}
Paths == {"p", "q"}
Txns == {1, 2}

-----------------------------------------------------------------------------
(* Characters and strings                                                  *)

Digits == {"0", "1", "2", "3", "4", "5", "6", "7", "8", "9"}

Letters ==
  {"a", "b", "c", "d", "e", "f", "g", "h", "i", "j", "k", "l", "m",
   "n", "o", "p", "q", "r", "s", "t", "u", "v", "w", "x", "y", "z",
   "A", "B", "C", "D", "E", "F", "G", "H", "I", "J", "K", "L", "M",
   "N", "O", "P", "Q", "R", "S", "T", "U", "V", "W", "X", "Y", "Z"}

isdigit(c) == c \in Digits

isalpha(c) == c \in Letters

isalnum(c) == isalpha(c) \/ isdigit(c)

\* std::all_of(segment.begin(), segment.end(), ::isdigit)
all_digits(segment) == \A n \in 1..Len(segment) : isdigit(segment[n])

digit_value(c) ==
  CASE c = "0" -> 0 [] c = "1" -> 1 [] c = "2" -> 2 [] c = "3" -> 3
    [] c = "4" -> 4 [] c = "5" -> 5 [] c = "6" -> 6 [] c = "7" -> 7
    [] c = "8" -> 8 [] c = "9" -> 9

digit_char(d) ==
  CASE d = 0 -> "0" [] d = 1 -> "1" [] d = 2 -> "2" [] d = 3 -> "3"
    [] d = 4 -> "4" [] d = 5 -> "5" [] d = 6 -> "6" [] d = 7 -> "7"
    [] d = 8 -> "8" [] d = 9 -> "9"

\* std::stoull on a string of decimal digits
RECURSIVE stoull(_)
stoull(segment) ==
  IF segment = <<>> THEN 0
  ELSE 10 * stoull(SubSeq(segment, 1, Len(segment) - 1))
         + digit_value(segment[Len(segment)])

\* std::to_string(idx)
RECURSIVE to_string(_)
to_string(idx) ==
  IF idx < 10 THEN <<digit_char(idx)>>
  ELSE to_string(idx \div 10) \o <<digit_char(idx % 10)>>

-----------------------------------------------------------------------------
(* Nodes: the dynamically typed tree of nlohmann::json / toml::node.       *)
(* Every node type has its own value field, so that nodes of different     *)
(* types are never compared value against value.                           *)

EmptyKv == [k \in {} |-> 0]

Obj(kv) == [t |-> "object", kv |-> kv]

Arr(el) == [t |-> "array", el |-> el]

BoolNode(v) == [t |-> "bool", b |-> v]

IntNode(v) == [t |-> "int", i |-> v]

DoubleNode(v) == [t |-> "double", d |-> v]

StringNode(v) == [t |-> "string", s |-> v]

NullNode == [t |-> "null"]

EmptyObject == Obj(EmptyKv)

EmptyArray == Arr(<<>>)

ScalarTypes == {"bool", "int", "double", "string"}

Scalar(T, v) ==
  CASE T = "bool" -> BoolNode(v)
    [] T = "int" -> IntNode(v)
    [] T = "double" -> DoubleNode(v)
    [] T = "string" -> StringNode(v)

\* the value a scalar node holds
ValueOf(node) ==
  CASE node.t = "bool" -> node.b
    [] node.t = "int" -> node.i
    [] node.t = "double" -> node.d
    [] node.t = "string" -> node.s

\* object[key] = child (insert or overwrite)
Put(kv, key, child) ==
  [k \in DOMAIN kv \cup {key} |-> IF k = key THEN child ELSE kv[k]]

\* object.erase(key)
Del(kv, key) == [k \in DOMAIN kv \ {key} |-> kv[k]]

\* array.erase(array.begin() + idx), idx counted from 0
EraseAt(el, idx) == SubSeq(el, 1, idx) \o SubSeq(el, idx + 2, Len(el))

\* nlohmann::json::clear(): containers are emptied, scalars take the
\* default value of their type; toml::table::clear() empties the table.
clear(node) ==
  CASE node.t = "object" -> EmptyObject
    [] node.t = "array" -> EmptyArray
    [] node.t = "bool" -> BoolNode(FALSE)
    [] node.t = "int" -> IntNode(0)
    [] node.t = "double" -> DoubleNode(0)
    [] node.t = "string" -> StringNode("")
    [] node.t = "null" -> NullNode

-----------------------------------------------------------------------------
(* Handle table and node addressing                                        *)

nullptr == [ok |-> FALSE]

Ptr(node) == [ok |-> TRUE, node |-> node]

\* The loop of navigate_to_node from position i (1-based; the code's i is
\* this i - 1) with `current` the node reached so far.
RECURSIVE navigate_from(_, _, _)
navigate_from(current, path, i) ==
  IF i > Len(path) THEN Ptr(current)
  ELSE LET segment == path[i] IN
       IF i > 1 /\ segment # <<>> /\ all_digits(segment)
       THEN IF current.t # "array" THEN nullptr
            ELSE LET idx == stoull(segment) IN
                 IF idx >= Len(current.el) THEN nullptr
                 ELSE navigate_from(current.el[idx + 1], path, i + 1)
       ELSE IF current.t # "object" THEN nullptr
            ELSE IF segment \notin DOMAIN current.kv THEN nullptr
            ELSE navigate_from(current.kv[segment], path, i + 1)

navigate_to_node(data, path) == navigate_from(data, path, 1)

\* The tree after the node that navigate_to_node(data, path) points at has
\* been assigned `new` (a write through the returned pointer).
RECURSIVE assign_from(_, _, _, _)
assign_from(current, path, i, new) ==
  IF i > Len(path) THEN new
  ELSE LET segment == path[i] IN
       IF i > 1 /\ segment # <<>> /\ all_digits(segment)
       THEN LET idx == stoull(segment) IN
            [current EXCEPT !.el[idx + 1] =
               assign_from(current.el[idx + 1], path, i + 1, new)]
       ELSE [current EXCEPT !.kv[segment] =
               assign_from(current.kv[segment], path, i + 1, new)]

assign_through(data, path, new) == assign_from(data, path, 1, new)

\* get_node: handle_map_.find(h.raw), then navigate_to_node
get_node(tx, h) ==
  IF h \notin DOMAIN tx.handle_map_ THEN nullptr
  ELSE navigate_to_node(tx.data_, tx.handle_map_[h])

\* get_node_checked reporting invalid_handle for every failure in both
\* backends
get_node_checked_uniform(be, tx, h) ==
  IF h = 0 \/ ~get_node(tx, h).ok THEN "invalid_handle" ELSE "ok"

\* get_node_checked: the error it returns, "ok" when the node is found.
\* JSON reports invalid_handle for both failures; TOML reports
\* invalid_argument for handle 0 and key_not_found for a lookup miss.
get_node_checked(be, tx, h) ==
  IF h = 0
  THEN IF be = "json" THEN "invalid_handle" ELSE "invalid_argument"
  ELSE IF ~get_node(tx, h).ok
  THEN IF be = "json" THEN "invalid_handle" ELSE "key_not_found"
  ELSE "ok"

\* JsonTransaction::is_valid_key on a key of ASCII characters
is_valid_key(key) ==
  /\ key # <<>>
  /\ isalpha(key[1]) \/ key[1] = "_"
  /\ \A n \in 2..Len(key) : isalnum(key[n]) \/ key[n] = "_"

\* a char holding a byte above 0x7F (one byte of a UTF-8 sequence): a
\* negative value where char is signed
HighBytes == {"0xC3"}

\* std::isalpha(c) with c a char converted to int: undefined when the value
\* is negative and not EOF; answers is what the call then returns
isalpha_char(c, answers) == IF c \in HighBytes THEN answers ELSE isalpha(c)

\* std::isalnum(c), as isalpha_char
isalnum_char(c, answers) == IF c \in HighBytes THEN answers ELSE isalnum(c)

\* JsonTransaction::is_valid_key on any key
json_is_valid_key(key, answers) ==
  /\ key # <<>>
  /\ isalpha_char(key[1], answers) \/ key[1] = "_"
  /\ \A n \in 2..Len(key) : isalnum_char(key[n], answers) \/ key[n] = "_"

\* TomlTransaction::is_valid_key: std::regex_match of the whole key against
\* [A-Za-z_][A-Za-z0-9_]*; the bracket ranges compare character codes
regex_match(key) ==
  /\ Len(key) >= 1
  /\ key[1] \in Letters \cup {"_"}
  /\ \A n \in 2..Len(key) : key[n] \in Letters \cup Digits \cup {"_"}

\* is_valid_key of the backend
key_check(be, key, answers) ==
  IF be = "json" THEN json_is_valid_key(key, answers) ELSE regex_match(key)

-----------------------------------------------------------------------------
(* Files and the tree providers                                            *)

Absent == [k |-> "absent"]

\* a file of zero bytes
EmptyFile == [k |-> "empty"]

\* bytes no provider accepts
Garbage == [k |-> "garbage"]

\* what a write that failed part-way left in the file
Partial == [k |-> "partial"]

\* data.dump(2) for JSON, operator<< of toml::table for TOML: the text of
\* `tree` in the format of the backend
serialize(be, tree) == [k |-> "text", fmt |-> be, tree |-> tree]

\* nlohmann::json::parse / toml::parse on the bytes of a file.  The JSON
\* store maps an empty file to an empty object before parsing; an empty
\* TOML document is the empty table.
parse(be, content) ==
  CASE content.k = "empty" -> [err |-> "ok", tree |-> EmptyObject]
    [] content.k = "text" /\ content.fmt = be ->
         [err |-> "ok", tree |-> content.tree]
    [] OTHER -> [err |-> "parse_error"]

exists(content) == content.k # "absent"

-----------------------------------------------------------------------------
(* Results of the operations                                               *)

Void == [t |-> "void"]

NoValue == [t |-> "none"]

HandleVal(h) == [t |-> "handle", h |-> h]

\* the argument a call takes besides its handle: a key, an index, a path
NoArg == [t |-> "none"]

KeyArg(key) == [t |-> "key", key |-> key]

IndexArg(idx) == [t |-> "index", idx |-> idx]

PathArg(path) == [t |-> "path", path |-> path]

\* the filesystem path that open takes
FileArg(p) == [t |-> "file", file |-> p]

\* The call that returned last: operation, transaction, handle argument,
\* other argument, error kind ("ok" on success) and returned value.  tick
\* is raised when the call repeats the one before it with the same outcome,
\* so that every call is a step.
Result(op, t, h, arg, res, val) ==
  LET r == [op |-> op, t |-> t, h |-> h, arg |-> arg, res |-> res,
            val |-> val, tick |-> 0]
  IN IF r = last THEN [r EXCEPT !.tick = 1] ELSE r

\* a call without such an argument
Returned(op, t, h, res, val) == Result(op, t, h, NoArg, res, val)

-----------------------------------------------------------------------------
(* Store: JsonStore / TomlStore                                            *)

\* History, as the specification tells it.  committed: the snapshot of the
\* most recent commit that returned success (nullptr before the first) and
\* the path it was written to; reopened: an open on that path has succeeded
\* since; baseline: the tree a new transaction is to start from, i.e. the
\* tree of the most recent open (the file's tree, the empty object for a
\* missing file) or of the most recent successful commit of a transaction
\* that had not been rolled back.
NoHistory ==
  [committed |-> nullptr, path |-> "p", reopened |-> FALSE,
   baseline |-> EmptyObject]

Opened(p, tree) ==
  [hist EXCEPT !.reopened = hist.committed.ok /\ hist.path = p,
               !.baseline = tree]

CommittedOk(tx, p) ==
  [committed |-> Ptr(tx.data_), path |-> p, reopened |-> FALSE,
   baseline |-> IF tx.phase = "RolledBack" THEN hist.baseline ELSE tx.data_]

\* The slot of a transaction object that does not exist.  data_,
\* handle_map_, next_handle_ and committed_ are the members of the class;
\* the other fields are history: phase is the state of the specification's
\* state machine (Active until the first successful commit or the first
\* rollback), rollbacks counts the runs of rollback_impl, dirty says that a
\* mutating call has succeeded, base holds the canonical tree and the files
\* as they were at begin_transaction for as long as no open, close or
\* successful commit has come in between.
NoTxn ==
  [st |-> "none", data_ |-> EmptyObject, handle_map_ |-> EmptyKv,
   next_handle_ |-> 1, committed_ |-> FALSE, phase |-> "None",
   rollbacks |-> 0, dirty |-> FALSE, base |-> nullptr]

\* the transactions after a store-level call that took effect: base is no
\* longer the state of the store at their begin_transaction
Intervened(txns) == [t \in DOMAIN txns |-> [txns[t] EXCEPT !.base = nullptr]]

\* a load that checks the file and hands the store an empty tree
load_from_file_unread(be, content, io) ==
  IF io = "read_fail" THEN [err |-> "io_failure"]
  ELSE IF parse(be, content).err # "ok" THEN parse(be, content)
  ELSE [err |-> "ok", tree |-> EmptyObject]

\* JsonStore::load_from_file / TomlStore::load_from_file; io = "read_fail"
\* is an ifstream that does not open
load_from_file(be, content, io) ==
  IF io = "read_fail" THEN [err |-> "io_failure"]
  ELSE parse(be, content)

\* an open that records the path before it looks at the Open flag
OpenReassigning(p, io) ==
  IF store.is_open_
  THEN /\ store' = [store EXCEPT !.path_ = p]
       /\ last' = Result("open", 0, 0, FileArg(p), "already_exists", NoValue)
       /\ UNCHANGED <<backend, fs, txn, hist>>
  ELSE /\ io = "ok"
       /\ store' = [store EXCEPT !.path_ = p, !.is_open_ = TRUE]
       /\ last' = Result("open", 0, 0, FileArg(p), "ok", Void)
       /\ hist' = Opened(p, EmptyObject)
       /\ txn' = Intervened(txn)
       /\ UNCHANGED <<backend, fs>>

\* JsonStore::open / TomlStore::open
Open(p, io) ==
  IF store.is_open_
  THEN /\ last' = Result("open", 0, 0, FileArg(p), "already_exists", NoValue)
       /\ UNCHANGED <<backend, store, fs, txn, hist>>
  ELSE IF exists(fs.main[p])
  THEN LET result == load_from_file(backend, fs.main[p], io) IN
       IF result.err # "ok"
       THEN /\ store' = [store EXCEPT !.path_ = p]
            /\ last' = Result("open", 0, 0, FileArg(p), result.err, NoValue)
            /\ txn' = Intervened(txn)
            /\ UNCHANGED <<backend, fs, hist>>
       ELSE /\ store' = [path_ |-> p, data_ |-> result.tree,
                         is_open_ |-> TRUE]
            /\ last' = Result("open", 0, 0, FileArg(p), "ok", Void)
            /\ hist' = Opened(p, result.tree)
            /\ txn' = Intervened(txn)
            /\ UNCHANGED <<backend, fs>>
  ELSE /\ io = "ok"
       /\ store' = [store EXCEPT !.path_ = p, !.is_open_ = TRUE]
       /\ last' = Result("open", 0, 0, FileArg(p), "ok", Void)
       /\ hist' = Opened(p, EmptyObject)
       /\ txn' = Intervened(txn)
       /\ UNCHANGED <<backend, fs>>

\* a close of a store whose transactions held references to the canonical
\* tree instead of copies: clearing the tree clears what they read
CloseSharedTree ==
  IF ~store.is_open_
  THEN /\ last' = Returned("close", 0, 0, "invalid_state", NoValue)
       /\ UNCHANGED <<backend, store, fs, txn, hist>>
  ELSE /\ store' = [store EXCEPT !.is_open_ = FALSE,
                                 !.data_ = clear(store.data_)]
       /\ last' = Returned("close", 0, 0, "ok", Void)
       /\ txn' = [t \in Txns |->
                    IF txn[t].st = "live"
                    THEN [Intervened(txn)[t] EXCEPT
                            !.data_ = clear(txn[t].data_)]
                    ELSE Intervened(txn)[t]]
       /\ UNCHANGED <<backend, fs, hist>>

\* JsonStore::close / TomlStore::close
Close ==
  IF ~store.is_open_
  THEN /\ last' = Returned("close", 0, 0, "invalid_state", NoValue)
       /\ UNCHANGED <<backend, store, fs, txn, hist>>
  ELSE /\ store' = [store EXCEPT !.is_open_ = FALSE,
                                 !.data_ = clear(store.data_)]
       /\ last' = Returned("close", 0, 0, "ok", Void)
       /\ txn' = Intervened(txn)
       /\ UNCHANGED <<backend, fs, hist>>

\* a constructor that stores no handle for the root
NewTransactionUnrooted(initial_data) ==
  [st |-> "live", data_ |-> initial_data, handle_map_ |-> EmptyKv,
   next_handle_ |-> 2, committed_ |-> FALSE, phase |-> "Active",
   rollbacks |-> 0, dirty |-> FALSE, base |-> nullptr]

\* JsonTransaction::JsonTransaction / TomlTransaction::TomlTransaction
NewTransaction(initial_data) ==
  [st |-> "live", data_ |-> initial_data, handle_map_ |-> (1 :> <<>>),
   next_handle_ |-> 2, committed_ |-> FALSE, phase |-> "Active",
   rollbacks |-> 0, dirty |-> FALSE, base |-> nullptr]

\* JsonStore::begin_transaction / TomlStore::begin_transaction; the new
\* object takes slot t
Begin(t) ==
  /\ txn[t].st # "live"
  /\ IF ~store.is_open_
     THEN /\ last' = Returned("begin_transaction", t, 0, "invalid_state",
                              NoValue)
          /\ UNCHANGED <<backend, store, fs, txn, hist>>
     ELSE /\ txn' = [txn EXCEPT ![t] =
                       [NewTransaction(store.data_) EXCEPT
                          !.base = Ptr([tree |-> store.data_, fs |-> fs])]]
          /\ last' = Returned("begin_transaction", t, 0, "ok", Void)
          /\ UNCHANGED <<backend, store, fs, hist>>

\* a save that writes <path>.tmp and reports success without the rename
save_without_rename(be, path, data, io) ==
  CASE io = "open_fail" -> [err |-> "io_failure", fs |-> fs]
    [] io = "write_fail" ->
         [err |-> "io_failure",
          fs |-> [fs EXCEPT !.tmp[path] = Partial]]
    [] io \in {"rename_fail", "ok"} ->
         [err |-> "ok",
          fs |-> [fs EXCEPT !.tmp[path] = serialize(be, data)]]

\* JsonStore::save_to_file / TomlStore::save_to_file: the file system after
\* the call and the error returned.  io names the step that fails:
\* "open_fail" (the ofstream on <path>.tmp does not open), "write_fail"
\* (the stream is not good after write and flush), "rename_fail"
\* (std::filesystem::rename throws), or "ok".
save_to_file(be, path, data, io) ==
  CASE io = "open_fail" -> [err |-> "io_failure", fs |-> fs]
    [] io = "write_fail" ->
         [err |-> "io_failure",
          fs |-> [fs EXCEPT !.tmp[path] = Partial]]
    [] io = "rename_fail" ->
         [err |-> "io_failure",
          fs |-> [fs EXCEPT !.tmp[path] = serialize(be, data)]]
    [] io = "ok" ->
         [err |-> "ok",
          fs |-> [fs EXCEPT !.main[path] = serialize(be, data),
                            !.tmp[path] = Absent]]

\* an update_data that keeps the members of the canonical tree which the
\* committed snapshot does not hold
update_data_merging(new_data) ==
  [store EXCEPT !.data_ =
     IF store.data_.t = "object" /\ new_data.t = "object"
     THEN Obj([k \in DOMAIN store.data_.kv \cup DOMAIN new_data.kv |->
                 IF k \in DOMAIN new_data.kv THEN new_data.kv[k]
                 ELSE store.data_.kv[k]])
     ELSE new_data]

\* JsonStore::update_data / TomlStore::update_data
update_data(new_data) == [store EXCEPT !.data_ = new_data]

\* a rollback that discards the snapshot and keeps the handle table
rollback_keeping_handles(tx) ==
  [tx EXCEPT !.data_ = clear(tx.data_), !.rollbacks = tx.rollbacks + 1]

\* JsonTransaction::rollback_impl / TomlTransaction::rollback_impl
rollback_impl(tx) ==
  [tx EXCEPT !.data_ = clear(tx.data_), !.handle_map_ = EmptyKv,
             !.rollbacks = tx.rollbacks + 1]

\* a commit that hands the snapshot to the store before the save has
\* succeeded
CommitBeforeSave(t, io) ==
  /\ txn[t].st = "live"
  /\ LET result == [err |-> IF io = "ok" THEN "ok" ELSE "io_failure",
                    fs |-> IF io = "ok"
                           THEN [fs EXCEPT
                                   !.main[store.path_] =
                                     serialize(backend, txn[t].data_)]
                           ELSE fs] IN
     /\ fs' = result.fs
     /\ store' = [store EXCEPT !.data_ = txn[t].data_]
     /\ IF result.err = "ok"
        THEN /\ txn' = [Intervened(txn) EXCEPT ![t].committed_ = TRUE,
                          ![t].phase = IF txn[t].phase = "Active"
                                       THEN "Committed" ELSE txn[t].phase]
             /\ last' = Returned("commit", t, 0, "ok", Void)
             /\ hist' = CommittedOk(txn[t], store.path_)
        ELSE /\ last' = Returned("commit", t, 0, result.err, NoValue)
             /\ UNCHANGED <<txn, hist>>
     /\ UNCHANGED backend

\* a commit that discards the snapshot and the handle table of the
\* transaction once the store has taken the snapshot
CommitDiscarding(t, io) ==
  /\ txn[t].st = "live"
  /\ LET result == save_to_file(backend, store.path_, txn[t].data_, io) IN
     /\ fs' = result.fs
     /\ IF result.err = "ok"
        THEN /\ store' = update_data(txn[t].data_)
             /\ txn' = [Intervened(txn) EXCEPT ![t].committed_ = TRUE,
                          ![t].data_ = clear(txn[t].data_),
                          ![t].handle_map_ = EmptyKv,
                          ![t].phase = IF txn[t].phase = "Active"
                                       THEN "Committed" ELSE txn[t].phase]
             /\ last' = Returned("commit", t, 0, "ok", Void)
             /\ hist' = CommittedOk(txn[t], store.path_)
        ELSE /\ last' = Returned("commit", t, 0, result.err, NoValue)
             /\ UNCHANGED <<store, txn, hist>>
     /\ UNCHANGED backend

\* transaction_base::commit over JsonTransaction::commit_impl /
\* TomlTransaction::commit_impl (store_ is never null for a transaction
\* made by begin_transaction)
Commit(t, io) ==
  /\ txn[t].st = "live"
  /\ LET result == save_to_file(backend, store.path_, txn[t].data_, io) IN
     /\ fs' = result.fs
     /\ IF result.err = "ok"
        THEN /\ store' = update_data(txn[t].data_)
             /\ txn' = [Intervened(txn) EXCEPT ![t].committed_ = TRUE,
                          ![t].phase = IF txn[t].phase = "Active"
                                       THEN "Committed" ELSE txn[t].phase]
             /\ last' = Returned("commit", t, 0, "ok", Void)
             /\ hist' = CommittedOk(txn[t], store.path_)
        ELSE /\ last' = Returned("commit", t, 0, result.err, NoValue)
             /\ UNCHANGED <<store, txn, hist>>
     /\ UNCHANGED backend

\* transaction_base::rollback
Rollback(t) ==
  /\ txn[t].st = "live"
  /\ txn' = IF ~txn[t].committed_
            THEN [txn EXCEPT ![t] =
                    [rollback_impl(txn[t]) EXCEPT !.committed_ = TRUE,
                                                  !.phase = "RolledBack"]]
            ELSE txn
  /\ last' = Returned("rollback", t, 0, "ok", Void)
  /\ UNCHANGED <<backend, store, fs, hist>>

\* a destructor that hands the snapshot of an unfinished transaction to the
\* store instead of discarding it
DestroyFlushing(t) ==
  /\ txn[t].st = "live"
  /\ store' = IF ~txn[t].committed_
              THEN [store EXCEPT !.data_ = txn[t].data_]
              ELSE store
  /\ txn' = [txn EXCEPT ![t] =
               [NoTxn EXCEPT !.st = "destroyed",
                             !.base = txn[t].base,
                             !.phase = IF txn[t].phase = "Active"
                                       THEN "RolledBack" ELSE txn[t].phase]]
  /\ last' = Returned("destroy", t, 0, "ok", Void)
  /\ UNCHANGED <<backend, fs, hist>>

\* JsonTransaction::~JsonTransaction / TomlTransaction::~TomlTransaction:
\* rollback_impl unless committed_; afterwards the object is gone, its slot
\* keeps only the history fields and may be taken by a later transaction
Destroy(t) ==
  /\ txn[t].st = "live"
  /\ LET tx == IF ~txn[t].committed_ THEN rollback_impl(txn[t]) ELSE txn[t]
     IN txn' = [txn EXCEPT ![t] =
                  [NoTxn EXCEPT !.st = "destroyed",
                                !.rollbacks = tx.rollbacks,
                                !.base = tx.base,
                                !.phase = IF tx.phase = "Active"
                                          THEN "RolledBack" ELSE tx.phase]]
  /\ last' = Returned("destroy", t, 0, "ok", Void)
  /\ UNCHANGED <<backend, store, fs, hist>>

-----------------------------------------------------------------------------
(* Transaction operations.  Each is an operator from the transaction       *)
(* object tx and the arguments to the object after the call (tx), the      *)
(* error kind (res, "ok" on success) and the returned value (val).         *)

Fail(tx, err) == [tx |-> tx, res |-> err, val |-> NoValue]

Done(tx, val) == [tx |-> tx, res |-> "ok", val |-> val]

\* make_handle without the increment of next_handle_
make_handle_in_place(tx, path) ==
  [tx EXCEPT !.handle_map_ = Put(tx.handle_map_, tx.next_handle_, path)]

\* make_handle
make_handle(tx, path) ==
  [tx EXCEPT !.handle_map_ = Put(tx.handle_map_, tx.next_handle_, path),
             !.next_handle_ = tx.next_handle_ + 1]

\* the type test of get_T: is_boolean / is_number_integer / is_number /
\* is_string in JSON, as_boolean / as_integer / as_floating_point /
\* as_string in TOML
get_accepts(be, T, node) ==
  IF be = "json" /\ T = "double" THEN node.t \in {"int", "double"}
  ELSE node.t = T

\* node->get<T>() in JSON, val->get() in TOML
get_value(T, node) ==
  IF T = "double" /\ node.t = "int" THEN DoubleNode(node.i * 10)
  ELSE node

\* get_bool / get_int / get_double / get_string
get_scalar(be, tx, h, T) ==
  LET err == get_node_checked(be, tx, h) IN
  IF err # "ok" THEN Fail(tx, err)
  ELSE LET node == get_node(tx, h).node IN
       IF ~get_accepts(be, T, node) THEN Fail(tx, "type_mismatch")
       ELSE Done(tx, get_value(T, node))

\* the type test of set_T: none in JSON (*node = v), as_T() in TOML
set_accepts(be, T, node) == be = "json" \/ node.t = T

\* set_T assigning before it tests the type
set_assigning_first(be, tx, h, T, v) ==
  LET err == get_node_checked(be, tx, h) IN
  IF err # "ok" THEN Fail(tx, err)
  ELSE LET node == get_node(tx, h).node
           assigned == [tx EXCEPT !.data_ =
                          assign_through(tx.data_, tx.handle_map_[h],
                                         Scalar(T, v))]
       IN IF ~set_accepts(be, T, node) THEN Fail(assigned, "type_mismatch")
          ELSE Done(assigned, Void)

\* set_bool / set_int / set_double / set_string
set_scalar(be, tx, h, T, v) ==
  LET err == get_node_checked(be, tx, h) IN
  IF err # "ok" THEN Fail(tx, err)
  ELSE LET node == get_node(tx, h).node IN
       IF ~set_accepts(be, T, node) THEN Fail(tx, "type_mismatch")
       ELSE Done([tx EXCEPT !.data_ =
                    assign_through(tx.data_, tx.handle_map_[h],
                                   Scalar(T, v))],
                 Void)

\* the duplicate-key test of make_*: table->contains(key) in TOML, none in
\* JSON ((*node)[key] = value overwrites)
make_rejects(be, node, key) == be = "toml" /\ key \in DOMAIN node.kv

\* make_* taking an Array parent as well, the new node appended to it
make_into_container(be, tx, parent, key, child) ==
  LET err == get_node_checked(be, tx, parent) IN
  IF err # "ok" THEN Fail(tx, err)
  ELSE LET node == get_node(tx, parent).node IN
       IF node.t = "array"
       THEN Done([tx EXCEPT !.data_ =
                    assign_through(tx.data_, tx.handle_map_[parent],
                                   Arr(Append(node.el, child)))],
                 Void)
       ELSE IF node.t # "object" THEN Fail(tx, "type_mismatch")
       ELSE IF make_rejects(be, node, key)
       THEN Fail(tx, "already_exists")
       ELSE Done([tx EXCEPT !.data_ =
                    assign_through(tx.data_, tx.handle_map_[parent],
                                   Obj(Put(node.kv, key, child)))],
                 Void)

\* the part of make_* after the key check: the parent, its type, the
\* duplicate-key test, then parent[key] = child
make_checked(be, tx, parent, key, child) ==
  LET err == get_node_checked(be, tx, parent) IN
  IF err # "ok" THEN Fail(tx, err)
  ELSE LET node == get_node(tx, parent).node IN
       IF node.t # "object" THEN Fail(tx, "type_mismatch")
       ELSE IF make_rejects(be, node, key)
       THEN Fail(tx, "already_exists")
       ELSE Done([tx EXCEPT !.data_ =
                    assign_through(tx.data_, tx.handle_map_[parent],
                                   Obj(Put(node.kv, key, child)))],
                 Void)

\* the common part of make_* on a key of ASCII characters
make_node(be, tx, parent, key, child) ==
  IF ~is_valid_key(key) THEN Fail(tx, "path_syntax")
  ELSE make_checked(be, tx, parent, key, child)

\* make_int / make_string on any key
make_keyed(be, tx, parent, key, T, v, answers) ==
  IF ~key_check(be, key, answers) THEN Fail(tx, "path_syntax")
  ELSE make_checked(be, tx, parent, key, Scalar(T, v))

\* make_object on any key
make_object_keyed(be, tx, parent, key, answers) ==
  IF ~key_check(be, key, answers) THEN Fail(tx, "path_syntax")
  ELSE LET r == make_checked(be, tx, parent, key, EmptyObject) IN
       IF r.res # "ok" THEN r
       ELSE Done(make_handle(r.tx, Append(tx.handle_map_[parent], key)),
                 HandleVal(tx.next_handle_))

\* make_bool / make_int / make_double / make_string
make_scalar(be, tx, parent, key, T, v) ==
  make_node(be, tx, parent, key, Scalar(T, v))

\* make_object / make_array: as make_node, then a handle for the new node
make_container(be, tx, parent, key, child) ==
  LET r == make_node(be, tx, parent, key, child) IN
  IF r.res # "ok" THEN r
  ELSE Done(make_handle(r.tx, Append(tx.handle_map_[parent], key)),
            HandleVal(tx.next_handle_))

\* remove erasing every member of the parent
remove_all_members(be, tx, parent, key) ==
  LET err == get_node_checked(be, tx, parent) IN
  IF err # "ok" THEN Fail(tx, err)
  ELSE LET node == get_node(tx, parent).node IN
       IF node.t # "object" THEN Fail(tx, "type_mismatch")
       ELSE IF key \notin DOMAIN node.kv THEN Fail(tx, "key_not_found")
       ELSE Done([tx EXCEPT !.data_ =
                    assign_through(tx.data_, tx.handle_map_[parent],
                                   EmptyObject)],
                 Void)

\* remove
remove(be, tx, parent, key) ==
  LET err == get_node_checked(be, tx, parent) IN
  IF err # "ok" THEN Fail(tx, err)
  ELSE LET node == get_node(tx, parent).node IN
       IF node.t # "object" THEN Fail(tx, "type_mismatch")
       ELSE IF key \notin DOMAIN node.kv THEN Fail(tx, "key_not_found")
       ELSE Done([tx EXCEPT !.data_ =
                    assign_through(tx.data_, tx.handle_map_[parent],
                                   Obj(Del(node.kv, key)))],
                 Void)

\* has answering false where the parent handle finds no node
has_or_false(be, tx, parent, key) ==
  IF ~get_node(tx, parent).ok THEN Done(tx, BoolNode(FALSE))
  ELSE LET node == get_node(tx, parent).node IN
       IF node.t # "object" THEN Fail(tx, "type_mismatch")
       ELSE Done(tx, BoolNode(key \in DOMAIN node.kv))

\* has
has(be, tx, parent, key) ==
  LET err == get_node_checked(be, tx, parent) IN
  IF err # "ok" THEN Fail(tx, err)
  ELSE LET node == get_node(tx, parent).node IN
       IF node.t # "object" THEN Fail(tx, "type_mismatch")
       ELSE Done(tx, BoolNode(key \in DOMAIN node.kv))

\* erase_element erasing the last element whatever the index
erase_last_element(be, tx, parent, idx) ==
  LET err == get_node_checked(be, tx, parent) IN
  IF err # "ok" THEN Fail(tx, err)
  ELSE LET node == get_node(tx, parent).node IN
       IF node.t # "array" THEN Fail(tx, "type_mismatch")
       ELSE IF idx >= Len(node.el) THEN Fail(tx, "index_out_of_range")
       ELSE Done([tx EXCEPT !.data_ =
                    assign_through(tx.data_, tx.handle_map_[parent],
                                   Arr(EraseAt(node.el, Len(node.el) - 1)))],
                 Void)

\* erase_element
erase_element(be, tx, parent, idx) ==
  LET err == get_node_checked(be, tx, parent) IN
  IF err # "ok" THEN Fail(tx, err)
  ELSE LET node == get_node(tx, parent).node IN
       IF node.t # "array" THEN Fail(tx, "type_mismatch")
       ELSE IF idx >= Len(node.el) THEN Fail(tx, "index_out_of_range")
       ELSE Done([tx EXCEPT !.data_ =
                    assign_through(tx.data_, tx.handle_map_[parent],
                                   Arr(EraseAt(node.el, idx)))],
                 Void)

\* has_element
has_element(be, tx, parent, idx) ==
  LET err == get_node_checked(be, tx, parent) IN
  IF err # "ok" THEN Fail(tx, err)
  ELSE LET node == get_node(tx, parent).node IN
       IF node.t # "array" THEN Fail(tx, "type_mismatch")
       ELSE Done(tx, BoolNode(idx < Len(node.el)))

\* child
child(be, tx, parent, key) ==
  LET err == get_node_checked(be, tx, parent) IN
  IF err # "ok" THEN Fail(tx, err)
  ELSE LET node == get_node(tx, parent).node IN
       IF node.t # "object" THEN Fail(tx, "type_mismatch")
       ELSE IF key \notin DOMAIN node.kv THEN Fail(tx, "key_not_found")
       ELSE Done(make_handle(tx, Append(tx.handle_map_[parent], key)),
                 HandleVal(tx.next_handle_))

\* element
element(be, tx, parent, idx) ==
  LET err == get_node_checked(be, tx, parent) IN
  IF err # "ok" THEN Fail(tx, err)
  ELSE LET node == get_node(tx, parent).node IN
       IF node.t # "array" THEN Fail(tx, "type_mismatch")
       ELSE IF idx >= Len(node.el) THEN Fail(tx, "index_out_of_range")
       ELSE Done(make_handle(tx,
                             Append(tx.handle_map_[parent], to_string(idx))),
                 HandleVal(tx.next_handle_))

\* the inner loops of navigate: the first position at or after i that is
\* past the end or holds no digit / holds '.' or '['
RECURSIVE scan_digits(_, _)
scan_digits(path, i) ==
  IF i <= Len(path) /\ isdigit(path[i]) THEN scan_digits(path, i + 1) ELSE i

RECURSIVE scan_key(_, _)
scan_key(path, j) ==
  IF j <= Len(path) /\ path[j] # "." /\ path[j] # "["
  THEN scan_key(path, j + 1) ELSE j

\* The while loop of transaction_base::navigate at position i (1-based)
\* with cur the handle reached so far.  Every child / element call on the
\* way allocates a handle in tx.  (std::from_chars cannot overflow 64 bits
\* on the paths of this model, which are shorter than 20 digits.)
RECURSIVE navigate_loop(_, _, _, _, _)
navigate_loop(be, tx, cur, path, i) ==
  IF i > Len(path) THEN Done(tx, HandleVal(cur))
  ELSE IF path[i] = "." THEN navigate_loop(be, tx, cur, path, i + 1)
  ELSE IF path[i] = "["
  THEN LET start == i + 1
           stop == scan_digits(path, start)
       IN IF stop > Len(path) \/ path[stop] # "]"
          THEN Fail(tx, "path_syntax")
          ELSE IF stop = start THEN Fail(tx, "path_syntax")
          ELSE LET next == element(be, tx, cur,
                                   stoull(SubSeq(path, start, stop - 1)))
               IN IF next.res # "ok" THEN next
                  ELSE IF next.val.h = 0 THEN Fail(next.tx, "key_not_found")
                  ELSE navigate_loop(be, next.tx, next.val.h, path, stop + 1)
  ELSE LET j == scan_key(path, i)
           next == child(be, tx, cur, SubSeq(path, i, j - 1))
       IN IF next.res # "ok" THEN next
          ELSE IF next.val.h = 0 THEN Fail(next.tx, "key_not_found")
          ELSE navigate_loop(be, next.tx, next.val.h, path, j)

\* transaction_base::navigate
navigate(be, tx, base, path) ==
  IF base = 0 THEN Fail(tx, "invalid_handle")
  ELSE navigate_loop(be, tx, base, path, 1)

\* get<T> reading through the base handle instead of the handle that
\* navigate returned
get_path_of_base(be, tx, base, path, T) ==
  LET h == navigate(be, tx, base, path) IN
  IF h.res # "ok" THEN Fail(h.tx, h.res)
  ELSE get_scalar(be, h.tx, base, T)

\* transaction_base::get<T>
get_path(be, tx, base, path, T) ==
  LET h == navigate(be, tx, base, path) IN
  IF h.res # "ok" THEN Fail(h.tx, h.res)
  ELSE get_scalar(be, h.tx, h.val.h, T)

-----------------------------------------------------------------------------
(* The transaction operations as steps of the system                       *)

\* a call on the live transaction t that returned r, while the transaction
\* has issued no handle above cap
CallWithin(cap, t, op, h, arg, r) ==
  /\ txn[t].st = "live"
  /\ r.tx.next_handle_ <= cap + 1
  /\ txn' = [txn EXCEPT ![t] =
               [r.tx EXCEPT !.dirty = @ \/ r.tx.data_ # txn[t].data_]]
  /\ last' = Result(op, t, h, arg, r.res, r.val)
  /\ UNCHANGED <<backend, store, fs, hist>>

Call(t, op, h, arg, r) == CallWithin(MaxHandle, t, op, h, arg, r)

GetScalar(t, h, T) ==
  Call(t, "get_" \o T, h, NoArg, get_scalar(backend, txn[t], h, T))

SetScalar(t, h, T, v) ==
  Call(t, "set_" \o T, h, NoArg, set_scalar(backend, txn[t], h, T, v))

MakeScalar(t, parent, key, T, v) ==
  Call(t, "make_" \o T, parent, KeyArg(key),
       make_scalar(backend, txn[t], parent, key, T, v))

MakeObject(t, parent, key) ==
  Call(t, "make_object", parent, KeyArg(key),
       make_container(backend, txn[t], parent, key, EmptyObject))

MakeArray(t, parent, key) ==
  Call(t, "make_array", parent, KeyArg(key),
       make_container(backend, txn[t], parent, key, EmptyArray))

Remove(t, parent, key) ==
  Call(t, "remove", parent, KeyArg(key), remove(backend, txn[t], parent, key))

Has(t, parent, key) ==
  Call(t, "has", parent, KeyArg(key), has(backend, txn[t], parent, key))

EraseElement(t, parent, idx) ==
  Call(t, "erase_element", parent, IndexArg(idx),
       erase_element(backend, txn[t], parent, idx))

HasElement(t, parent, idx) ==
  Call(t, "has_element", parent, IndexArg(idx),
       has_element(backend, txn[t], parent, idx))

Child(t, parent, key) ==
  Call(t, "child", parent, KeyArg(key), child(backend, txn[t], parent, key))

Element(t, parent, idx) ==
  Call(t, "element", parent, IndexArg(idx),
       element(backend, txn[t], parent, idx))

Navigate(t, base, path) ==
  Call(t, "navigate", base, PathArg(path),
       navigate(backend, txn[t], base, path))

GetPath(t, base, path, T) ==
  Call(t, "get<" \o T \o ">", base, PathArg(path),
       get_path(backend, txn[t], base, path, T))

-----------------------------------------------------------------------------
(* Specification: one store, the files of its paths, and transactions      *)
(* begun on it, called in any order by a single caller.                    *)

KeyA == <<"a">>

KeyB == <<"b">>

Keys == {KeyA}

Handles == 1..MaxHandle

IntValues == {2}

\* what the file at path "p" may hold before the store is constructed
InitFiles(be) ==
  {Absent, Garbage,
   serialize(be, Obj(Put(EmptyKv, KeyA, IntNode(1)))),
   serialize(be, Obj(Put(EmptyKv, KeyA, Arr(<<IntNode(1)>>))))}

OpenIo == {"ok", "read_fail"}

CommitIo == {"ok", "open_fail", "write_fail", "rename_fail"}

\* the state after the store has been constructed ("p" is the path a caller
\* passes to open; nothing is loaded before open), over a file from `files`
InitWith(files) ==
  /\ backend \in Backends
  /\ store = [path_ |-> "p", data_ |-> EmptyObject, is_open_ |-> FALSE]
  /\ \E f \in files :
       fs = [main |-> [p \in Paths |-> IF p = "p" THEN f ELSE Absent],
             tmp |-> [p \in Paths |-> Absent]]
  /\ txn = [t \in Txns |-> NoTxn]
  /\ hist = NoHistory
  /\ last = [op |-> "construct", t |-> 0, h |-> 0, arg |-> NoArg,
             res |-> "ok", val |-> Void, tick |-> 0]

Init == InitWith(InitFiles(backend))

Next ==
  \/ \E io \in OpenIo : Open("p", io)
  \/ Close
  \/ \E t \in {1} : Begin(t)
  \/ \E t \in {1}, io \in {"ok", "open_fail"} : Commit(t, io)
  \/ \E t \in {1} : Rollback(t)
  \/ \E t \in {1} : Destroy(t)
  \/ \E t \in {1}, h \in Handles, v \in IntValues : SetScalar(t, h, "int", v)
  \/ \E t \in {1}, h \in Handles, k \in Keys, v \in IntValues :
       MakeScalar(t, h, k, "int", v)
  \/ \E t \in {1}, k \in Keys : MakeObject(t, 1, k)
  \/ \E t \in {1}, h \in Handles, k \in Keys : Remove(t, h, k)
  \/ \E t \in {1}, h \in Handles, k \in Keys : Child(t, h, k)
  \/ \E t \in {1}, h \in Handles : EraseElement(t, h, 0)
  \/ \E t \in {1}, h \in Handles : Element(t, h, 0)
  \/ \E t \in {1}, h \in Handles : Navigate(t, h, KeyA)

Spec == Init /\ [][Next]_vars

-----------------------------------------------------------------------------
(* SpecIo: the same store and caller, every failure of the save protocol,  *)
(* edits at the root only.                                                 *)

NextIo ==
  \/ \E io \in OpenIo : Open("p", io)
  \/ Close
  \/ Begin(1)
  \/ \E io \in CommitIo : Commit(1, io)
  \/ Rollback(1)
  \/ Destroy(1)
  \/ \E k \in Keys, v \in IntValues : MakeScalar(1, 1, k, "int", v)
  \/ \E k \in Keys : Remove(1, 1, k)

SpecIo == Init /\ [][NextIo]_vars

-----------------------------------------------------------------------------
(* SpecTwo: two transactions live on the store at the same time, no        *)
(* failures.                                                               *)

InitTwo ==
  InitWith({serialize(backend, Obj(Put(EmptyKv, KeyA, IntNode(1))))})

NextTwo ==
  \/ Open("p", "ok")
  \/ Close
  \/ \E t \in Txns : Begin(t)
  \/ \E t \in Txns : Commit(t, "ok")
  \/ \E t \in Txns : Rollback(t)
  \/ \E t \in Txns : Destroy(t)
  \/ \E t \in Txns, k \in Keys, v \in IntValues :
       MakeScalar(t, 1, k, "int", v)
  \/ \E t \in Txns, k \in Keys : Remove(t, 1, k)
  \/ \E t \in Txns : Has(t, 1, KeyA)

SpecTwo == InitTwo /\ [][NextTwo]_vars

-----------------------------------------------------------------------------
(* SpecOps: one transaction on a store opened on a small file; every       *)
(* operation of the transaction, before and after commit and rollback,     *)
(* with valid, invalid and never-issued handles.                           *)

OpsFiles(be) ==
  {serialize(be, Obj(Put(EmptyKv, KeyA, Arr(<<IntNode(1)>>))))}

AnyHandle == 0..MaxHandle

\* the value the set_T and make_T calls pass
NewValue(T) ==
  CASE T = "bool" -> TRUE
    [] T = "int" -> 7
    [] T = "double" -> 25
    [] T = "string" -> "y"

\* a key outside the grammar of is_valid_key
BadKey == <<"0">>

\* paths of navigate: no segment, one key, an unterminated index, a
\* missing key before an unterminated index, a key outside the key grammar
OpsPaths == {<<>>, <<".">>, KeyA, <<"[">>, <<"b", "[">>, BadKey}

InitOps == InitWith(OpsFiles(backend))

NextOps ==
  \/ Open("p", "ok")
  \/ Begin(1)
  \/ Commit(1, "ok")
  \/ Rollback(1)
  \/ \E h \in AnyHandle, T \in ScalarTypes : GetScalar(1, h, T)
  \/ \E h \in AnyHandle : SetScalar(1, h, "int", NewValue("int"))
  \/ \E h \in AnyHandle, k \in {KeyA, BadKey} :
       MakeScalar(1, h, k, "int", NewValue("int"))
  \/ \E h \in AnyHandle : MakeObject(1, h, KeyA)
  \/ \E h \in AnyHandle : MakeArray(1, h, KeyA)
  \/ \E h \in AnyHandle : Remove(1, h, KeyA)
  \/ \E h \in AnyHandle : Has(1, h, KeyA)
  \/ \E h \in AnyHandle : EraseElement(1, h, 0)
  \/ \E h \in AnyHandle : HasElement(1, h, 0)
  \/ \E h \in AnyHandle : Child(1, h, KeyA)
  \/ \E h \in AnyHandle : Element(1, h, 0)
  \/ \E h \in AnyHandle, path \in OpsPaths : Navigate(1, h, path)
  \/ \E h \in AnyHandle : GetPath(1, h, KeyA, "int")

SpecOps == InitOps /\ [][NextOps]_vars

-----------------------------------------------------------------------------
(* SpecTypes: one transaction on a file holding a node of one of the six   *)
(* types under key "a"; typed reads and writes through handles.            *)

TypedNodes ==
  {BoolNode(FALSE), IntNode(1), DoubleNode(15), StringNode("x"),
   Obj(Put(EmptyKv, KeyA, IntNode(1))),
   Arr(<<IntNode(1), StringNode("x")>>)}

TypedFiles(be) ==
  {serialize(be, Obj(Put(EmptyKv, KeyA, n))) : n \in TypedNodes}

InitTypes == InitWith(TypedFiles(backend))

NextTypes ==
  \/ Open("p", "ok")
  \/ Begin(1)
  \/ \E h \in AnyHandle : Child(1, h, KeyA)
  \/ \E h \in AnyHandle, T \in ScalarTypes : GetScalar(1, h, T)
  \/ \E h \in AnyHandle, T \in ScalarTypes : SetScalar(1, h, T, NewValue(T))
  \/ \E T \in ScalarTypes : GetPath(1, 1, KeyA, T)

SpecTypes == InitTypes /\ [][NextTypes]_vars

-----------------------------------------------------------------------------
(* SpecLife: the lifecycle of the store over two paths, of which "q" holds *)
(* no file at first: open, close, begin and commit in every order, with    *)
(* reads that fail, and a transaction that edits the root.                 *)

LifeFiles(be) ==
  {Absent, Garbage, serialize(be, Obj(Put(EmptyKv, KeyA, IntNode(1))))}

InitLife == InitWith(LifeFiles(backend))

NextLife ==
  \/ \E p \in Paths, io \in OpenIo : Open(p, io)
  \/ Close
  \/ Begin(1)
  \/ Commit(1, "ok")
  \/ Destroy(1)
  \/ \E v \in IntValues : SetScalar(1, 1, "int", v)
  \/ \E k \in Keys, v \in IntValues : MakeScalar(1, 1, k, "int", v)
  \/ \E k \in Keys : Has(1, 1, k)

SpecLife == InitLife /\ [][NextLife]_vars

-----------------------------------------------------------------------------
(* SpecKeep: one transaction that makes a string under key "a", commits    *)
(* (the write may fail) and goes on navigating and reading.                *)

KeepFiles(be) == {Absent, serialize(be, Obj(Put(EmptyKv, KeyB, IntNode(1))))}

InitKeep == InitWith(KeepFiles(backend))

NextKeep ==
  \/ Open("p", "ok")
  \/ Begin(1)
  \/ \E io \in {"ok", "write_fail"} : Commit(1, io)
  \/ Rollback(1)
  \/ MakeScalar(1, 1, KeyA, "string", NewValue("string"))
  \/ \E h \in Handles : SetScalar(1, h, "string", "z")
  \/ \E h \in Handles, k \in {KeyA, KeyB} : Navigate(1, h, k)
  \/ \E h \in AnyHandle : GetScalar(1, h, "string")
  \/ \E k \in {KeyA, KeyB} : GetPath(1, 1, k, "string")

SpecKeep == InitKeep /\ [][NextKeep]_vars

-----------------------------------------------------------------------------
(* SpecDeep: one transaction on a file that holds an Array of three        *)
(* elements or an Object with an all-digit key under key "a"; handles to   *)
(* the container and to what it holds, reads through them, and erasure of  *)
(* the first element.                                                      *)

DeepFiles(be) ==
  {serialize(be, Obj(Put(EmptyKv, KeyA,
                         Arr(<<IntNode(1), IntNode(2), IntNode(3)>>)))),
   serialize(be, Obj(Put(EmptyKv, KeyA,
                         Obj(Put(EmptyKv, BadKey, IntNode(1))))))}

\* one handle more than in the other specifications: the root, the
\* container and one node inside it
DeepHandles == 1..(MaxHandle + 1)

DeepIndices == 0..2

\* paths of navigate: no segment, and "a[0]", which takes two handles
DeepPaths == {<<>>, <<"a", "[", "0", "]">>}

DeepCall(t, op, h, arg, r) == CallWithin(MaxHandle + 1, t, op, h, arg, r)

InitDeep == InitWith(DeepFiles(backend))

NextDeep ==
  \/ Open("p", "ok")
  \/ Begin(1)
  \/ \E h \in DeepHandles, k \in {KeyA, BadKey} :
       DeepCall(1, "child", h, KeyArg(k), child(backend, txn[1], h, k))
  \/ \E h \in DeepHandles, idx \in DeepIndices :
       DeepCall(1, "element", h, IndexArg(idx),
                element(backend, txn[1], h, idx))
  \/ \E h \in DeepHandles, idx \in DeepIndices :
       DeepCall(1, "erase_element", h, IndexArg(idx),
                erase_element(backend, txn[1], h, idx))
  \/ \E h \in DeepHandles, idx \in DeepIndices :
       DeepCall(1, "has_element", h, IndexArg(idx),
                has_element(backend, txn[1], h, idx))
  \/ \E h \in DeepHandles :
       DeepCall(1, "get_int", h, NoArg, get_scalar(backend, txn[1], h, "int"))
  \/ \E h \in DeepHandles, path \in DeepPaths :
       DeepCall(1, "navigate", h, PathArg(path),
                navigate(backend, txn[1], h, path))
  \/ \E h \in DeepHandles :
       DeepCall(1, "make_object", h, KeyArg(KeyB),
                make_container(backend, txn[1], h, KeyB, EmptyObject))
  \/ \E h \in DeepHandles :
       DeepCall(1, "make_array", h, KeyArg(KeyB),
                make_container(backend, txn[1], h, KeyB, EmptyArray))
  \/ Rollback(1)

SpecDeep == InitDeep /\ [][NextDeep]_vars

-----------------------------------------------------------------------------
(* A fifth system: make_* under keys of every shape.  The keys are the     *)
(* empty key, keys with a leading digit, a dash or a space, keys of the    *)
(* key grammar, and keys holding a byte above 0x7F.                        *)

KeySamples ==
  {<<>>, <<"1", "a">>, <<"a", "-">>, <<" ", "a">>, KeyA, <<"_", "A", "1">>,
   <<"0xC3">>, <<"a", "0xC3">>}

KeysFiles(be) == {Absent, serialize(be, Obj(Put(EmptyKv, KeyA, IntNode(1))))}

MakeKeyed(t, parent, key, T, v, answers) ==
  Call(t, "make_" \o T, parent, KeyArg(key),
       make_keyed(backend, txn[t], parent, key, T, v, answers))

MakeObjectKeyed(t, parent, key, answers) ==
  Call(t, "make_object", parent, KeyArg(key),
       make_object_keyed(backend, txn[t], parent, key, answers))

InitKeys == InitWith(KeysFiles(backend))

NextKeys ==
  \/ Open("p", "ok")
  \/ Begin(1)
  \/ \E h \in {0, 1}, key \in KeySamples, answers \in BOOLEAN :
       MakeKeyed(1, h, key, "int", 2, answers)
  \/ \E key \in KeySamples, answers \in BOOLEAN :
       MakeObjectKeyed(1, 1, key, answers)
  \/ Rollback(1)

SpecKeys == InitKeys /\ [][NextKeys]_vars

-----------------------------------------------------------------------------
(* A sixth system: edits of every scalar type read back.  The file holds  *)
(* an integer under "a" and a table under "b" with a string under "a".    *)

EditFiles(be) ==
  {serialize(be, Obj(Put(Put(EmptyKv, KeyA, IntNode(1)), KeyB,
                         Obj(Put(EmptyKv, KeyA, StringNode("x"))))))}

InitEdit == InitWith(EditFiles(backend))

NextEdit ==
  \/ Open("p", "ok")
  \/ Begin(1)
  \/ \E h \in Handles, k \in {KeyA, KeyB} : Child(1, h, k)
  \/ \E h \in Handles, T \in ScalarTypes :
       MakeScalar(1, h, KeyA, T, NewValue(T))
  \/ \E h \in Handles, T \in ScalarTypes : SetScalar(1, h, T, NewValue(T))
  \/ \E h \in Handles, k \in {KeyA, KeyB} : Remove(1, h, k)

SpecEdit == InitEdit /\ [][NextEdit]_vars

-----------------------------------------------------------------------------
(* A seventh system: paths of several segments.  The file holds a table    *)
(* under "a" with an empty table under "b"; the transaction may issue four *)
(* handles more than in the other systems, so that a path of three         *)
(* segments can be navigated after another one.                            *)

KeyC == <<"c">>

PathFiles(be) ==
  {serialize(be, Obj(Put(EmptyKv, KeyA, Obj(Put(EmptyKv, KeyB, EmptyObject)))))}

\* a.b, a.b.c, a.x.c (a missing key in the middle), a.b[ (an unclosed
\* bracket after two keys that resolve)
PathSamples ==
  {<<"a", ".", "b">>, <<"a", ".", "b", ".", "c">>,
   <<"a", ".", "x", ".", "c">>, <<"a", ".", "b", "[">>}

PathHandles == 1..(MaxHandle + 4)

PathCall(t, op, h, arg, r) == CallWithin(MaxHandle + 4, t, op, h, arg, r)

InitPath == InitWith(PathFiles(backend))

NextPath ==
  \/ Open("p", "ok")
  \/ Begin(1)
  \/ \E path \in PathSamples :
       PathCall(1, "navigate", 1, PathArg(path),
                navigate(backend, txn[1], 1, path))
  \/ \E path \in PathSamples :
       PathCall(1, "get<int>", 1, PathArg(path),
                get_path(backend, txn[1], 1, path, "int"))
  \/ \E h \in PathHandles :
       PathCall(1, "make_int", h, KeyArg(KeyC),
                make_scalar(backend, txn[1], h, KeyC, "int", NewValue("int")))

SpecPath == InitPath /\ [][NextPath]_vars

-----------------------------------------------------------------------------
(* An eighth system: two writers in save_to_file on the same path at the   *)
(* same time (two stores opened on one path, in two threads or two         *)
(* processes, each committing the snapshot of its transaction).  Here      *)
(* txn[w] is writer w: data_ is the snapshot it saves; pc is its position  *)
(* in save_to_file; stream names the file its ofstream writes to, by the   *)
(* name that file has now ("tmp" for <path>.tmp, "main" for <path> once    *)
(* the other writer has renamed the file); pos is the number of chunks it  *)
(* has written.  A file is a sequence of chunks; the text of a tree is     *)
(* written in two chunks.  A chunk a writer skipped over is a hole.        *)

Hole == [hole |-> TRUE]

Bytes(chunks) == [k |-> "bytes", chunks |-> chunks]

\* data.dump(2) / operator<< of toml::table, as the chunks the stream
\* hands to the file one after the other
Chunks(be, tree) ==
  <<[part |-> 1, of |-> serialize(be, tree)],
    [part |-> 2, of |-> serialize(be, tree)]>>

\* a file with chunk c written at offset pos (0-based), holes before it
\* where the file was shorter
WriteAt(chunks, pos, c) ==
  [n \in 1..(IF Len(chunks) > pos + 1 THEN Len(chunks) ELSE pos + 1) |->
     IF n = pos + 1 THEN c
     ELSE IF n <= Len(chunks) THEN chunks[n] ELSE Hole]

Writer(tree) ==
  [st |-> "live", data_ |-> tree, pc |-> "open", stream |-> "none",
   pos |-> 0, res |-> "none"]

RaceTrees == {Obj(Put(EmptyKv, KeyA, IntNode(v))) : v \in {1, 2}}

InitRace ==
  /\ backend \in Backends
  /\ store = [path_ |-> "p", data_ |-> EmptyObject, is_open_ |-> TRUE]
  /\ fs = [main |-> [p \in Paths |->
                      IF p = "p" THEN Bytes(Chunks(backend, EmptyObject))
                      ELSE Absent],
           tmp |-> [p \in Paths |-> Absent]]
  /\ \E first \in RaceTrees :
       \E second \in RaceTrees \ {first} :
         txn = <<Writer(first), Writer(second)>>
  /\ hist = NoHistory
  /\ last = [op |-> "construct", t |-> 0, h |-> 0, arg |-> NoArg,
             res |-> "ok", val |-> Void, tick |-> 0]

\* std::ofstream temp_file(temp_path, std::ios::out | std::ios::trunc): the
\* file <path>.tmp is created, or emptied if it exists
TempFileOpen(w) ==
  /\ txn[w].pc = "open"
  /\ fs' = [fs EXCEPT !.tmp[store.path_] = Bytes(<<>>)]
  /\ txn' = [txn EXCEPT ![w].pc = "write", ![w].stream = "tmp"]
  /\ UNCHANGED <<backend, store, hist, last>>

\* temp_file << data: the next chunk, written at the position of this
\* writer's stream into the file the stream was opened on
TempFileWrite(w) ==
  /\ txn[w].pc = "write"
  /\ txn[w].pos < Len(Chunks(backend, txn[w].data_))
  /\ LET c == Chunks(backend, txn[w].data_)[txn[w].pos + 1] IN
     fs' = IF txn[w].stream = "tmp"
           THEN [fs EXCEPT !.tmp[store.path_] =
                   Bytes(WriteAt(@.chunks, txn[w].pos, c))]
           ELSE [fs EXCEPT !.main[store.path_] =
                   Bytes(WriteAt(@.chunks, txn[w].pos, c))]
  /\ txn' = [txn EXCEPT ![w].pos = @ + 1]
  /\ UNCHANGED <<backend, store, hist, last>>

\* temp_file.flush(), the test of good(), and the end of the block that
\* closes the stream
TempFileFlush(w) ==
  /\ txn[w].pc = "write"
  /\ txn[w].pos = Len(Chunks(backend, txn[w].data_))
  /\ txn' = [txn EXCEPT ![w].pc = "rename", ![w].stream = "none"]
  /\ UNCHANGED <<backend, store, fs, hist, last>>

\* std::filesystem::rename(temp_path, path_) and the return: the rename
\* throws when <path>.tmp does not exist, and the handler returns
\* IoFailure; a stream the other writer holds on the file follows the file
RenameTemp(w) ==
  /\ txn[w].pc = "rename"
  /\ IF exists(fs.tmp[store.path_])
     THEN /\ fs' = [fs EXCEPT !.main[store.path_] = fs.tmp[store.path_],
                              !.tmp[store.path_] = Absent]
          /\ txn' = [v \in Txns |->
                       IF v = w
                       THEN [txn[v] EXCEPT !.pc = "done", !.res = "ok"]
                       ELSE IF txn[v].stream = "tmp"
                       THEN [txn[v] EXCEPT !.stream = "main"]
                       ELSE txn[v]]
          /\ last' = Result("save_to_file", w, 0, FileArg(store.path_),
                            "ok", Void)
     ELSE /\ txn' = [txn EXCEPT ![w].pc = "done", ![w].res = "io_failure"]
          /\ last' = Result("save_to_file", w, 0, FileArg(store.path_),
                            "io_failure", NoValue)
          /\ UNCHANGED fs
  /\ UNCHANGED <<backend, store, hist>>

NextRace ==
  \/ \E w \in Txns : TempFileOpen(w)
  \/ \E w \in Txns : TempFileWrite(w)
  \/ \E w \in Txns : TempFileFlush(w)
  \/ \E w \in Txns : RenameTemp(w)

SpecRace == InitRace /\ [][NextRace]_vars

-----------------------------------------------------------------------------
(* Names of the operations, as recorded in last.op                         *)

GetOps == {"get_bool", "get_int", "get_double", "get_string"}

SetOps == {"set_bool", "set_int", "set_double", "set_string"}

MakeOps ==
  {"make_object", "make_array", "make_bool", "make_int", "make_double",
   "make_string"}

GetPathOps == {"get<bool>", "get<int>", "get<double>", "get<string>"}

\* the operations of a transaction that take a handle
HandleOps ==
  GetOps \cup SetOps \cup MakeOps \cup
    {"remove", "erase_element", "has", "has_element", "child", "element",
     "navigate"}

-----------------------------------------------------------------------------
(* Commit / rollback lifecycle                                             *)

\* C1: while no open, close or successful commit has come in between, the
\* canonical tree and the files are what they were when the transaction
\* was begun, whatever the transaction did and also after it was rolled
\* back or destroyed; and a transaction begun on the store starts from the
\* canonical tree, so it sees none of the edits of a dropped one.
C1_DroppedTransactionLeavesStore ==
  /\ \A t \in Txns :
       txn[t].base.ok =>
         /\ store.data_ = txn[t].base.node.tree
         /\ fs = txn[t].base.node.fs
  /\ (last.op = "begin_transaction" /\ last.res = "ok") =>
       txn[last.t].data_ = store.data_

\* an edited transaction has just been rolled back over a canonical tree
\* that holds keys
C1_Witness ==
  /\ last.op = "rollback"
  /\ txn[1].phase = "RolledBack"
  /\ txn[1].dirty
  /\ txn[1].base.ok
  /\ store.data_ # EmptyObject

\* C2: a transaction begun after a successful commit and a later successful
\* open of the committed path starts from exactly the committed snapshot
\* (every key, nested objects included, with its type and value).
C2_CommitIsDurable ==
  (/\ last.op = "begin_transaction"
   /\ last.res = "ok"
   /\ hist.committed.ok
   /\ hist.reopened) =>
     txn[last.t].data_ = hist.committed.node

\* a nested object with a value was committed, the store closed and opened
\* again, and a new transaction begun
C2_Witness ==
  /\ last.op = "begin_transaction"
  /\ last.res = "ok"
  /\ hist.reopened
  /\ hist.committed.ok
  /\ txn[1].data_ = Obj(Put(EmptyKv, KeyA, Obj(Put(EmptyKv, KeyA, IntNode(2)))))

\* C3: a commit returns success or io_failure; it returns success only
\* when the file at the path holds the serialized snapshot; when it fails,
\* the file at the path, the canonical tree and every transaction (phase,
\* snapshot, handle table) are what they were, so the transaction is still
\* Active and may commit again or roll back; and the canonical tree changes
\* in a commit only together with the file, after the rename.
C3_FailedCommitChangesNothing ==
  [][(last' # last /\ last'.op = "commit") =>
       /\ last'.res \in {"ok", "io_failure"}
       /\ last'.res = "ok" =>
            /\ fs'.main[store.path_] = serialize(backend, txn[last'.t].data_)
            /\ fs'.tmp[store.path_] = Absent
       /\ last'.res # "ok" =>
            /\ fs'.main = fs.main
            /\ store' = store
            /\ txn' = txn
       /\ store'.data_ # store.data_ =>
            /\ last'.res = "ok"
            /\ fs'.main[store.path_] = serialize(backend, store'.data_)]_vars

\* the commit of an edited, Active transaction has just failed in the
\* write of <path>.tmp, over an existing file
C3_Witness ==
  /\ last.op = "commit"
  /\ last.res = "io_failure"
  /\ txn[1].st = "live"
  /\ txn[1].phase = "Active"
  /\ txn[1].dirty
  /\ txn[1].data_ # store.data_
  /\ fs.tmp["p"] = Partial
  /\ fs.main["p"] = serialize(backend, store.data_)

\* C4: once rollback() has been called on a transaction, no later call on
\* it, commit included, changes the canonical tree or the files.
C4_RolledBackIsAbsorbing ==
  [][\A t \in Txns :
       (/\ txn[t].st = "live"
        /\ txn[t].phase = "RolledBack"
        /\ last'.t = t
        /\ last'.op \in HandleOps \cup {"commit", "rollback"}) =>
          (store' = store /\ fs' = fs)]_vars

\* C6: commit on a transaction whose earlier commit succeeded returns
\* invalid_state and changes neither the files nor the canonical tree.
C6_SecondCommitFails ==
  [][\A t \in Txns :
       (/\ txn[t].st = "live"
        /\ txn[t].phase = "Committed"
        /\ last'.t = t
        /\ last'.op = "commit") =>
          (/\ last'.res = "invalid_state"
           /\ store' = store
           /\ fs' = fs)]_vars

\* C7: commit on a transaction of a store that has been closed returns
\* invalid_state, writes no file and leaves the canonical tree cleared.
C7_CommitAfterCloseFails ==
  [][(/\ ~store.is_open_
      /\ last' # last
      /\ last'.op = "commit") =>
        (/\ last'.res = "invalid_state"
         /\ fs' = fs
         /\ store' = store)]_vars

\* C8: the snapshot of a new transaction is the canonical tree as of the
\* most recent successful commit, or the tree of the open if there was
\* none; transactions that were rolled back or dropped, and failed commits,
\* contribute nothing.
C8_BeginObservesLastCommit ==
  (last.op = "begin_transaction" /\ last.res = "ok") =>
    txn[last.t].data_ = hist.baseline

-----------------------------------------------------------------------------
(* Operations on a finished transaction                                    *)

-----------------------------------------------------------------------------
(* Isolation of snapshots                                                  *)

\* C9: a step that is not a call on the live transaction t (a call on
\* another transaction, its commit included, or an open or close of the
\* store) leaves the snapshot and the handle table of t as they were; a
\* call on a transaction other than commit leaves the canonical tree as it
\* was; and a transaction that has just been begun holds the canonical
\* tree, hence no uncommitted edit of another transaction.
C9_SnapshotIsPrivate ==
  [][\A t \in Txns :
       /\ (/\ txn[t].st = "live"
           /\ txn'[t].st = "live"
           /\ last'.t # t) =>
             /\ txn'[t].data_ = txn[t].data_
             /\ txn'[t].handle_map_ = txn[t].handle_map_
       /\ (last' # last /\ last'.t = t /\ last'.op # "commit") =>
             store' = store
       /\ (/\ last' # last
           /\ last'.t = t
           /\ last'.op = "begin_transaction"
           /\ last'.res = "ok") =>
             txn'[t].data_ = store.data_]_vars

\* transaction 1 has just committed its edits while transaction 2, begun
\* before and edited since, is still Active on a different snapshot
C9_Witness ==
  /\ last.op = "commit"
  /\ last.res = "ok"
  /\ last.t = 1
  /\ txn[2].st = "live"
  /\ txn[2].phase = "Active"
  /\ txn[2].dirty
  /\ txn[2].data_ # store.data_
  /\ store.data_ # EmptyObject

-----------------------------------------------------------------------------
(* Typed writes                                                            *)

\* C10: set_T through a handle that resolves to a node that is not a scalar
\* of type T returns type_mismatch and leaves the snapshot as it was, so no
\* set_* call changes the type of a node.
C10_SetNeverRetypes ==
  [][\A T \in ScalarTypes :
       (/\ last' # last
        /\ last'.op = "set_" \o T
        /\ get_node(txn[last'.t], last'.h).ok
        /\ get_node(txn[last'.t], last'.h).node.t # T) =>
          /\ last'.res = "type_mismatch"
          /\ txn'[last'.t].data_ = txn[last'.t].data_]_vars

-----------------------------------------------------------------------------
(* Typed reads                                                             *)

\* C11: get_T through a handle that resolves succeeds iff the node has type
\* T, or T is double and the node is an Int; every other combination
\* returns type_mismatch; and no get_T changes the snapshot.  In both
\* backends.
C11_GetIsStrictlyTyped ==
  [][\A T \in ScalarTypes :
       (/\ last' # last
        /\ last'.op = "get_" \o T
        /\ get_node(txn[last'.t], last'.h).ok) =>
          LET node == get_node(txn[last'.t], last'.h).node
              fits == node.t = T \/ (T = "double" /\ node.t = "int")
          IN /\ fits => last'.res = "ok"
             /\ ~fits => last'.res = "type_mismatch"
             /\ txn'[last'.t].data_ = txn[last'.t].data_]_vars

-----------------------------------------------------------------------------
(* Insertion                                                               *)

\* C12: a make_* call whose parent handle resolves to an Object that
\* already holds the key returns already_exists and leaves the snapshot as
\* it was, so the node stored under the key keeps its type, value and
\* children.  In both backends.
C12_MakeNeverOverwrites ==
  [][(/\ last' # last
      /\ last'.op \in MakeOps
      /\ get_node(txn[last'.t], last'.h).ok
      /\ get_node(txn[last'.t], last'.h).node.t = "object"
      /\ last'.arg.key \in DOMAIN get_node(txn[last'.t], last'.h).node.kv) =>
        /\ last'.res = "already_exists"
        /\ txn'[last'.t].data_ = txn[last'.t].data_]_vars

-----------------------------------------------------------------------------
(* Operation-level atomicity                                               *)

\* C13: a call of get_*, set_*, make_*, remove, erase_element, has,
\* has_element, child, element, navigate or get<T> that returns an error
\* leaves the snapshot tree of its transaction exactly as it was.
C13_FailedCallLeavesSnapshot ==
  [][(/\ last' # last
      /\ last'.op \in HandleOps \cup GetPathOps
      /\ last'.res # "ok") =>
        txn'[last'.t].data_ = txn[last'.t].data_]_vars

\* a set_int through a handle of an Active transaction whose snapshot holds
\* keys has just been refused for the type of the node
C13_Witness ==
  /\ last.op = "set_int"
  /\ last.res = "type_mismatch"
  /\ txn[last.t].phase = "Active"
  /\ get_node(txn[last.t], last.h).ok
  /\ txn[last.t].data_ # EmptyObject

-----------------------------------------------------------------------------
(* Stale handles                                                           *)

\* the location stored for handle h of tx passes through a key that the
\* Object above it does not hold (handles are issued for keys that are
\* present, so the key has been removed since)
KeyGone(tx, h) ==
  /\ h \in DOMAIN tx.handle_map_
  /\ \E n \in 1..Len(tx.handle_map_[h]) :
       LET p == navigate_to_node(tx.data_, SubSeq(tx.handle_map_[h], 1, n - 1))
       IN /\ p.ok
          /\ p.node.t = "object"
          /\ tx.handle_map_[h][n] \notin DOMAIN p.node.kv

\* a path in which navigate finds no segment: empty or dots only
NoSegments(path) == \A n \in 1..Len(path) : path[n] = "."

\* what a lookup miss is reported as
StaleError == IF backend = "json" THEN "invalid_handle" ELSE "key_not_found"

-----------------------------------------------------------------------------
(* Handles into arrays and through all-digit keys                          *)

\* handle h of tx is stored at index j of the Array stored at `path`, for
\* some j > i
AboveIndex(tx, h, path, i) ==
  LET loc == tx.handle_map_[h] IN
  /\ Len(loc) = Len(path) + 1
  /\ SubSeq(loc, 1, Len(path)) = path
  /\ loc[Len(loc)] # <<>>
  /\ all_digits(loc[Len(loc)])
  /\ stoull(loc[Len(loc)]) > i

\* C15: after erase_element(p, i) has succeeded, every handle issued before
\* for an index j > i of p is stale: the next get_* through it returns
\* key_not_found or index_out_of_range and no value.
C15_ErasedTailIsStale ==
  [][(/\ last' # last
      /\ last'.op = "erase_element"
      /\ last'.res = "ok") =>
        \A h \in DOMAIN txn[last'.t].handle_map_ :
          AboveIndex(txn[last'.t], h, txn[last'.t].handle_map_[last'.h],
                     last'.arg.idx) =>
            \A T \in ScalarTypes :
              LET next == get_scalar(backend, txn'[last'.t], h, T)
              IN /\ next.res \in {"key_not_found", "index_out_of_range"}
                 /\ next.val = NoValue]_vars

\* C16: the handle that a successful child, element, make_object or
\* make_array returns dereferences successfully from the moment it is
\* returned, whatever the spelling of the keys on its location.
C16_IssuedHandleResolves ==
  [][(/\ last' # last
      /\ last'.op \in {"child", "element", "make_object", "make_array"}
      /\ last'.res = "ok") =>
        get_node_checked(backend, txn'[last'.t], last'.val.h) = "ok"]_vars

-----------------------------------------------------------------------------
(* Handle numbering                                                        *)

\* the operations that return a handle
IssuingOps == {"child", "element", "make_object", "make_array", "navigate"}

-----------------------------------------------------------------------------
(* The root handle                                                         *)

-----------------------------------------------------------------------------
(* Shape of the tree                                                       *)

\* C19: in every reachable state the root of the canonical tree and the
\* root of the snapshot of every Active transaction is an Object.
C19_RootIsObject ==
  /\ store.data_.t = "object"
  /\ \A t \in Txns :
       (txn[t].st = "live" /\ txn[t].phase = "Active") =>
         txn[t].data_.t = "object"

-----------------------------------------------------------------------------
(* The zero handle                                                         *)

\* C20: get_*, set_*, make_* with a key of the key grammar, remove,
\* erase_element, has, has_element, child, element and navigate return
\* invalid_handle when the handle they are given is 0, and leave the
\* snapshot and the handle table as they were.  In both backends.
C20_ZeroHandleIsInvalidHandle ==
  [][(/\ last' # last
      /\ last'.op \in HandleOps
      /\ last'.h = 0
      /\ last'.op \in MakeOps => is_valid_key(last'.arg.key)) =>
        /\ last'.res = "invalid_handle"
        /\ last'.val = NoValue
        /\ txn' = txn]_vars

-----------------------------------------------------------------------------
(* Invalid handles in the TOML transaction                                 *)

-----------------------------------------------------------------------------
(* The temporary file of the save protocol                                 *)

\* C22: whenever no commit is executing (in every state between two calls),
\* also after a commit that failed at the write, flush or rename step, no
\* file exists at <path>.tmp.
C22_NoTemporaryFileAtRest ==
  \A p \in Paths : fs.tmp[p] = Absent

\* C23: when commit returns success, <path>.tmp does not exist and <path>
\* holds the serialized snapshot of the transaction; and <path>.tmp did not
\* exist when the commit started.
C23_CommitLeavesNoTemporaryFile ==
  [][(/\ last' # last
      /\ last'.op = "commit"
      /\ last'.res = "ok") =>
        /\ fs.tmp[store.path_] = Absent
        /\ fs'.tmp[store.path_] = Absent
        /\ fs'.main[store.path_] =
             serialize(backend, txn[last'.t].data_)]_vars

-----------------------------------------------------------------------------
(* Store lifecycle                                                         *)

\* C24: open on an Open store returns already_exists and leaves the path,
\* the canonical tree and the Open flag as they were; begin_transaction on
\* a Closed store returns invalid_state and creates no transaction; close
\* on a Closed store returns invalid_state; none of the three changes the
\* files or a transaction.
C24_WrongStateCallsChangeNothing ==
  [][/\ (last' # last /\ last'.op = "open" /\ store.is_open_) =>
          /\ last'.res = "already_exists"
          /\ store' = store
          /\ fs' = fs
          /\ txn' = txn
     /\ (last' # last /\ last'.op = "begin_transaction"
                      /\ ~store.is_open_) =>
          /\ last'.res = "invalid_state"
          /\ store' = store
          /\ fs' = fs
          /\ txn' = txn
     /\ (last' # last /\ last'.op = "close" /\ ~store.is_open_) =>
          /\ last'.res = "invalid_state"
          /\ store' = store
          /\ fs' = fs
          /\ txn' = txn]_vars

\* open("q") has just been refused on a store that is Open on "p" with a
\* canonical tree that holds keys
C24_Witness ==
  /\ last.op = "open"
  /\ last.arg = FileArg("q")
  /\ last.res = "already_exists"
  /\ store.is_open_
  /\ store.path_ = "p"
  /\ store.data_ # EmptyObject

\* C25: when open succeeds on a path at which no file exists, the canonical
\* tree is the empty Object, whatever the store held in earlier open/close
\* cycles.
C25_OpenOfMissingFileIsEmpty ==
  [][(/\ last' # last
      /\ last'.op = "open"
      /\ last'.res = "ok"
      /\ ~exists(fs.main[last'.arg.file])) =>
        /\ store'.is_open_
        /\ store'.data_ = EmptyObject]_vars

\* C26: an open that returns io_failure or parse_error leaves the store as
\* it was: Closed, with the canonical tree and the recorded path of before
\* the call.
C26_FailedOpenChangesNothing ==
  [][(/\ last' # last
      /\ last'.op = "open"
      /\ last'.res \in {"io_failure", "parse_error"}) =>
        /\ ~store'.is_open_
        /\ store' = store]_vars

-----------------------------------------------------------------------------
(* Runs of the rollback implementation                                     *)

\* C27: rollback_impl runs exactly once for a transaction that never
\* committed successfully, over any explicit rollback() calls followed by
\* destruction (also with none); a second rollback() changes nothing; and
\* it never runs for a transaction that committed successfully: none has
\* run when a commit returns success, and none runs afterwards.
C27_RollbackRunsExactlyOnce ==
  [][\A t \in Txns :
       /\ txn'[t].rollbacks <= 1
       /\ (/\ last' # last
           /\ last'.t = t
           /\ last'.op = "rollback"
           /\ txn[t].rollbacks = 1) =>
             txn'[t] = txn[t]
       /\ (/\ last' # last
           /\ last'.t = t
           /\ last'.op = "commit"
           /\ last'.res = "ok") =>
             txn'[t].rollbacks = 0
       /\ txn[t].phase = "Committed" =>
             txn'[t].rollbacks = txn[t].rollbacks
       /\ (/\ last' # last
           /\ last'.t = t
           /\ last'.op = "destroy"
           /\ txn[t].phase # "Committed") =>
             txn'[t].rollbacks = 1]_vars

-----------------------------------------------------------------------------
(* The transaction after a successful commit                               *)

\* C28: a commit that returns success leaves the snapshot, the handle table
\* and the handle counter of the transaction as they were; afterwards
\* navigate from the root handle along a key that the snapshot holds
\* succeeds with a handle for that node, get_string through a handle that
\* resolves to a String returns its value, and get<string> along the key
\* returns it as well.
C28_CommitKeepsSnapshot ==
  [][/\ (/\ last' # last
         /\ last'.op = "commit"
         /\ last'.res = "ok") =>
           /\ txn'[last'.t].data_ = txn[last'.t].data_
           /\ txn'[last'.t].handle_map_ = txn[last'.t].handle_map_
           /\ txn'[last'.t].next_handle_ = txn[last'.t].next_handle_
     /\ (/\ last' # last
         /\ last'.op \in {"navigate", "get<string>"}
         /\ last'.h = 1
         /\ txn[last'.t].phase = "Committed"
         /\ txn[last'.t].data_.t = "object"
         /\ last'.arg.path \in DOMAIN txn[last'.t].data_.kv) =>
           LET node == txn[last'.t].data_.kv[last'.arg.path] IN
           IF last'.op = "navigate"
           THEN /\ last'.res = "ok"
                /\ get_node(txn'[last'.t], last'.val.h) = Ptr(node)
           ELSE node.t = "string" => (last'.res = "ok" /\ last'.val = node)
     /\ (/\ last' # last
         /\ last'.op = "get_string"
         /\ txn[last'.t].phase = "Committed"
         /\ get_node(txn[last'.t], last'.h).ok
         /\ get_node(txn[last'.t], last'.h).node.t = "string") =>
           /\ last'.res = "ok"
           /\ last'.val = get_node(txn[last'.t], last'.h).node]_vars

\* after a successful commit, get_string through the handle that navigate
\* returned for key "a" has just returned the string made before the
\* commit, which is also what the canonical tree and the file hold
C28_Witness ==
  /\ last.op = "get_string"
  /\ last.res = "ok"
  /\ last.h = 2
  /\ last.val = StringNode(NewValue("string"))
  /\ txn[last.t].phase = "Committed"
  /\ txn[last.t].handle_map_[2] = KeyA
  /\ store.data_ = txn[last.t].data_
  /\ fs.main[store.path_] = serialize(backend, txn[last.t].data_)

C30_MakeNeedsTableParent ==
  [][(/\ last' # last
      /\ last'.op \in MakeOps) =>
        LET tx == txn[last'.t]
            parent == get_node(tx, last'.h)
        IN /\ (/\ is_valid_key(last'.arg.key)
               /\ parent.ok
               /\ parent.node.t \in ScalarTypes \cup {"array"}) =>
                 /\ last'.res = "type_mismatch"
                 /\ last'.val = NoValue
                 /\ txn' = txn
           /\ \A path \in ({KeyA, KeyB} \X {KeyA, KeyB})
                              \cup {<<KeyA>>, <<KeyB>>} :
                LET before == navigate_to_node(tx.data_, path)
                    after == navigate_to_node(txn'[last'.t].data_, path)
                IN (/\ before.ok
                    /\ before.node.t = "array"
                    /\ after.ok
                    /\ after.node.t = "array") =>
                     Len(after.node.el) <= Len(before.node.el)]_vars

\* make_int with key "a" has just been refused with type_mismatch on a
\* handle that resolves to an Array
C30_Witness ==
  /\ last.op = "make_int"
  /\ last.res = "type_mismatch"
  /\ is_valid_key(last.arg.key)
  /\ get_node(txn[last.t], last.h).ok
  /\ get_node(txn[last.t], last.h).node.t = "array"

\* C31: the two backends expose identical semantics: whatever snapshot and
\* handle table a transaction holds, each operation applied to it by the
\* JSON backend and by the TOML backend returns the same success value or
\* the same error kind and leaves the same snapshot and handle table.
C31_BackendsAgree ==
  \A t \in Txns :
    txn[t].st = "live" =>
      \A h \in AnyHandle :
        /\ \A T \in ScalarTypes :
             /\ get_scalar("json", txn[t], h, T)
                  = get_scalar("toml", txn[t], h, T)
             /\ set_scalar("json", txn[t], h, T, NewValue(T))
                  = set_scalar("toml", txn[t], h, T, NewValue(T))
             /\ make_scalar("json", txn[t], h, KeyA, T, NewValue(T))
                  = make_scalar("toml", txn[t], h, KeyA, T, NewValue(T))
        /\ has("json", txn[t], h, KeyA) = has("toml", txn[t], h, KeyA)
        /\ remove("json", txn[t], h, KeyA) = remove("toml", txn[t], h, KeyA)
        /\ child("json", txn[t], h, KeyA) = child("toml", txn[t], h, KeyA)

\* the scalar type a make_T, set_T or get_T operation is named after
TypeOf(op) ==
  CHOOSE T \in ScalarTypes : op \in {"make_" \o T, "set_" \o T, "get_" \o T}

\* one location is an initial part of the other
Prefix(p, q) == Len(p) <= Len(q) /\ SubSeq(q, 1, Len(p)) = p

\* C32: within one transaction, after make_T(p, k, v) succeeds has(p, k)
\* is true and get_T on child(p, k) returns v; after set_T(h, v2) succeeds
\* get_T(h) returns v2; after remove(p, k) succeeds has(p, k) is false,
\* child(p, k) returns key_not_found, every other key of p keeps its node
\* and so does every node that lies neither under p nor above it; remove
\* of a key the Object p does not hold returns key_not_found.
C32_EditsAreReadBack ==
  [][last' # last =>
       LET t == last'.t
           h == last'.h
           before == txn[t]
           after == txn'[t]
       IN /\ (last'.res = "ok" /\ last'.op \in MakeOps \ {"make_object", "make_array"}) =>
               LET T == TypeOf(last'.op)
                   k == last'.arg.key
                   c == child(backend, after, h, k)
               IN /\ has(backend, after, h, k) = Done(after, BoolNode(TRUE))
                  /\ c.res = "ok"
                  /\ get_scalar(backend, c.tx, c.val.h, T)
                       = Done(c.tx, Scalar(T, NewValue(T)))
          /\ (last'.res = "ok" /\ last'.op \in SetOps) =>
               LET T == TypeOf(last'.op)
               IN get_scalar(backend, after, h, T)
                    = Done(after, Scalar(T, NewValue(T)))
          /\ (last'.res = "ok" /\ last'.op = "remove") =>
               LET k == last'.arg.key
                   was == get_node(before, h).node
                   now == get_node(after, h).node
                   at == before.handle_map_[h]
               IN /\ has(backend, after, h, k) = Done(after, BoolNode(FALSE))
                  /\ child(backend, after, h, k) = Fail(after, "key_not_found")
                  /\ now.t = "object"
                  /\ DOMAIN now.kv = DOMAIN was.kv \ {k}
                  /\ \A k2 \in DOMAIN now.kv : now.kv[k2] = was.kv[k2]
                  /\ \A q \in {<<KeyA>>, <<KeyB>>, <<KeyB, KeyA>>,
                               <<KeyB, KeyB>>, <<KeyA, KeyA>>} :
                       (~Prefix(at, q) /\ ~Prefix(q, at)) =>
                         navigate_to_node(after.data_, q)
                           = navigate_to_node(before.data_, q)
          /\ (/\ last'.op = "remove"
              /\ get_node(before, h).ok
              /\ get_node(before, h).node.t = "object"
              /\ last'.arg.key \notin DOMAIN get_node(before, h).node.kv) =>
               /\ last'.res = "key_not_found"
               /\ txn' = txn]_vars

\* remove(b, "a") has just succeeded on the handle of the table under "b":
\* the table is empty and the integer under "a" of the root is still there
C32_Witness ==
  /\ last.op = "remove"
  /\ last.res = "ok"
  /\ last.h = 2
  /\ txn[1].handle_map_[2] = <<KeyB>>
  /\ navigate_to_node(txn[1].data_, <<KeyB>>) = Ptr(EmptyObject)
  /\ navigate_to_node(txn[1].data_, <<KeyA>>).ok

\* C33: for a parent handle that resolves to an Array of length n,
\* has_element(p, i) returns i < n; element(p, i) returns a new handle for
\* the location of p followed by i when i < n and index_out_of_range
\* otherwise; erase_element(p, i) with i < n leaves an Array of length
\* n - 1 whose elements before i are unchanged and whose element at j - 1
\* is the one formerly at j for every j > i, and with i >= n returns
\* index_out_of_range and changes nothing.  For a parent that resolves to
\* a node that is not an Array all three return type_mismatch and change
\* nothing.
C33_ArrayOperations ==
  [][(/\ last' # last
      /\ last'.op \in {"has_element", "element", "erase_element"}
      /\ get_node(txn[last'.t], last'.h).ok) =>
        LET before == txn[last'.t]
            after == txn'[last'.t]
            h == last'.h
            i == last'.arg.idx
            was == get_node(before, h).node
        IN IF was.t # "array"
           THEN /\ last'.res = "type_mismatch"
                /\ last'.val = NoValue
                /\ txn' = txn
           ELSE LET n == Len(was.el) IN
                CASE last'.op = "has_element" ->
                       /\ last'.res = "ok"
                       /\ last'.val = BoolNode(i < n)
                       /\ txn' = txn
                  [] last'.op = "element" ->
                       IF i < n
                       THEN /\ last'.res = "ok"
                            /\ last'.val = HandleVal(before.next_handle_)
                            /\ after.data_ = before.data_
                            /\ after.handle_map_
                                 = Put(before.handle_map_, before.next_handle_,
                                       Append(before.handle_map_[h],
                                              to_string(i)))
                       ELSE /\ last'.res = "index_out_of_range"
                            /\ last'.val = NoValue
                            /\ txn' = txn
                  [] last'.op = "erase_element" ->
                       IF i < n
                       THEN LET now == get_node(after, h).node IN
                            /\ last'.res = "ok"
                            /\ now.t = "array"
                            /\ Len(now.el) = n - 1
                            /\ \A j \in 0..(i - 1) :
                                 now.el[j + 1] = was.el[j + 1]
                            /\ \A j \in (i + 1)..(n - 1) :
                                 now.el[j] = was.el[j + 1]
                            /\ after.handle_map_ = before.handle_map_
                       ELSE /\ last'.res = "index_out_of_range"
                            /\ last'.val = NoValue
                            /\ txn' = txn]_vars

\* erase_element(a, 1) has just succeeded on the array [1, 2, 3] under key
\* "a", which now holds [1, 3]
C33_Witness ==
  /\ last.op = "erase_element"
  /\ last.res = "ok"
  /\ last.arg = IndexArg(1)
  /\ get_node(txn[1], last.h) = Ptr(Arr(<<IntNode(1), IntNode(3)>>))

\* the path grammar from position i on: dots, indices of one or more
\* decimal digits in brackets, and keys of the key grammar
RECURSIVE WellFormedFrom(_, _)
WellFormedFrom(path, i) ==
  IF i > Len(path) THEN TRUE
  ELSE IF path[i] = "." THEN WellFormedFrom(path, i + 1)
  ELSE IF path[i] = "["
  THEN LET stop == scan_digits(path, i + 1) IN
       /\ stop > i + 1
       /\ stop <= Len(path)
       /\ path[stop] = "]"
       /\ WellFormedFrom(path, stop + 1)
  ELSE LET j == scan_key(path, i) IN
       /\ is_valid_key(SubSeq(path, i, j - 1))
       /\ WellFormedFrom(path, j)

\* C34: navigate reports errors in this precedence: base handle 0 gives
\* invalid_handle whatever the path; otherwise a path that violates the
\* path grammar anywhere gives path_syntax, also when an earlier segment
\* names a missing key or an index out of range; only a well-formed path
\* yields key_not_found, index_out_of_range or type_mismatch.
C34_NavigateErrorPrecedence ==
  [][(/\ last' # last
      /\ last'.op = "navigate") =>
        /\ last'.h = 0 => last'.res = "invalid_handle"
        /\ (/\ last'.h # 0
            /\ get_node(txn[last'.t], last'.h).ok
            /\ ~WellFormedFrom(last'.arg.path, 1)) =>
             last'.res = "path_syntax"
        /\ last'.res \in {"key_not_found", "index_out_of_range",
                          "type_mismatch"} =>
             WellFormedFrom(last'.arg.path, 1)]_vars

\* resolution of a stored location as stated: the segment at position i is
\* an array index only if it is not the first, consists of decimal digits
\* and the current node is an Array; in every other case it is a key of
\* the current Object
RECURSIVE ResolveFrom(_, _, _)
ResolveFrom(current, path, i) ==
  IF i > Len(path) THEN Ptr(current)
  ELSE LET segment == path[i] IN
       IF /\ i > 1
          /\ segment # <<>>
          /\ all_digits(segment)
          /\ current.t = "array"
       THEN IF stoull(segment) >= Len(current.el) THEN nullptr
            ELSE ResolveFrom(current.el[stoull(segment) + 1], path, i + 1)
       ELSE IF current.t # "object" THEN nullptr
            ELSE IF segment \notin DOMAIN current.kv THEN nullptr
            ELSE ResolveFrom(current.kv[segment], path, i + 1)

\* C35: a handle's stored location resolves against the snapshot with a
\* segment read as an array index only where it is not the first, is all
\* digits and the current node is an Array, and as an object key in every
\* other case; so a digit-only key of an Object resolves at any depth.
C35_DigitKeyResolvesAtAnyDepth ==
  \A t \in Txns :
    \A h \in DOMAIN txn[t].handle_map_ :
      navigate_to_node(txn[t].data_, txn[t].handle_map_[h])
        = ResolveFrom(txn[t].data_, txn[t].handle_map_[h], 1)

\* the segments of a path from position i on, read without looking at the
\* tree: keys, indices, and one "bad" segment where the text stops
\* following the bracket syntax
RECURSIVE SegmentsFrom(_, _)
SegmentsFrom(path, i) ==
  IF i > Len(path) THEN <<>>
  ELSE IF path[i] = "." THEN SegmentsFrom(path, i + 1)
  ELSE IF path[i] = "["
  THEN LET stop == scan_digits(path, i + 1) IN
       IF stop = i + 1 \/ stop > Len(path) \/ path[stop] # "]"
       THEN <<[k |-> "bad"]>>
       ELSE <<[k |-> "index", idx |-> stoull(SubSeq(path, i + 1, stop - 1))]>>
              \o SegmentsFrom(path, stop + 1)
  ELSE LET j == scan_key(path, i) IN
       <<[k |-> "key", key |-> SubSeq(path, i, j - 1)]>>
         \o SegmentsFrom(path, j)

\* the child / element calls for the segments from the n-th on, one after
\* the other, stopping at the first that fails
RECURSIVE WalkFrom(_, _, _, _, _)
WalkFrom(be, tx, cur, segs, n) ==
  IF n > Len(segs) THEN Done(tx, HandleVal(cur))
  ELSE IF segs[n].k = "bad" THEN Fail(tx, "path_syntax")
  ELSE LET next == IF segs[n].k = "key"
                   THEN child(be, tx, cur, segs[n].key)
                   ELSE element(be, tx, cur, segs[n].idx)
       IN IF next.res # "ok" THEN next
          ELSE WalkFrom(be, next.tx, next.val.h, segs, n + 1)

\* the location a handle gets for segments that all resolved
RECURSIVE Location(_)
Location(segs) ==
  IF segs = <<>> THEN <<>>
  ELSE <<IF segs[1].k = "key" THEN segs[1].key ELSE to_string(segs[1].idx)>>
         \o Location(Tail(segs))

\* C36: navigate never changes the snapshot tree.  With a base handle
\* other than 0 it returns what the child / element calls for its segments
\* return, taken in order: on success over one or more segments a handle
\* that did not exist before, whose location is the location of base
\* followed by the segments, and on failure the error of the first call
\* that fails.  get<T>(base, path) returns that error, or else what get_T
\* returns on the handle, and does not change the snapshot tree either.
C36_NavigateFollowsSegments ==
  [][(/\ last' # last
      /\ last'.op \in GetPathOps \cup {"navigate"}
      /\ last'.h # 0) =>
        LET before == txn[last'.t]
            after == txn'[last'.t]
            segs == SegmentsFrom(last'.arg.path, 1)
            walk == WalkFrom(backend, before, last'.h, segs, 1)
        IN /\ after.data_ = before.data_
           /\ last'.op = "navigate" =>
                /\ last'.res = walk.res
                /\ last'.val = walk.val
                /\ (last'.res = "ok" /\ segs # <<>>) =>
                     /\ last'.val.h \notin DOMAIN before.handle_map_
                     /\ last'.val.h \in DOMAIN after.handle_map_
                     /\ after.handle_map_[last'.val.h]
                          = before.handle_map_[last'.h] \o Location(segs)
           /\ last'.op \in GetPathOps =>
                IF walk.res # "ok"
                THEN last'.res = walk.res /\ last'.val = NoValue
                ELSE LET got == get_scalar(backend, walk.tx, walk.val.h,
                                           CHOOSE T \in ScalarTypes :
                                             last'.op = "get<" \o T \o ">")
                     IN last'.res = got.res /\ last'.val = got.val]_vars

\* get<int>(root, "a.b.c") has just returned 7, the value that make_int
\* put under key "c" of the table a.b
C36_Witness ==
  /\ last.op = "get<int>"
  /\ last.arg = PathArg(<<"a", ".", "b", ".", "c">>)
  /\ last.res = "ok"
  /\ last.val = IntNode(NewValue("int"))
  /\ navigate_to_node(txn[1].data_, <<KeyA, KeyB, KeyC>>)
       = Ptr(IntNode(NewValue("int")))

\* C37: when a commit of a transaction succeeds, the canonical tree of the
\* store is the snapshot of the transaction, whole, and the file at the
\* path of the store holds the serialized snapshot and parses to it:
\* nothing of what the canonical tree or the file held before remains, so
\* of two transactions begun from the same canonical tree the one that
\* commits later leaves none of the edits of the other.
C37_CommitReplacesCanonicalTree ==
  [][(/\ last' # last
      /\ last'.op = "commit"
      /\ last'.res = "ok") =>
        LET snapshot == txn[last'.t].data_ IN
        /\ txn'[last'.t].data_ = snapshot
        /\ store'.data_ = snapshot
        /\ fs'.main[store'.path_] = serialize(backend, snapshot)
        /\ parse(backend, fs'.main[store'.path_])
             = [err |-> "ok", tree |-> snapshot]]_vars

\* transaction 1 removed key "a" and committed; transaction 2, whose
\* snapshot still holds the integer 1 under "a", has just committed, and
\* the canonical tree and the file hold "a" again
C37_Witness ==
  /\ last.op = "commit"
  /\ last.t = 2
  /\ last.res = "ok"
  /\ txn[1].phase = "Committed"
  /\ txn[1].data_ = EmptyObject
  /\ txn[2].data_ = Obj(Put(EmptyKv, KeyA, IntNode(1)))
  /\ store.data_ = txn[2].data_
  /\ fs.main[store.path_] = serialize(backend, txn[2].data_)

\* C38: after every call, a store that is Open holds as its canonical tree
\* the tree of the file at its path; or, where no such file exists, the
\* call was not a commit that succeeded and, if the store was Open before
\* the call as well, the canonical tree is the one it held before (so no
\* commit has succeeded since the open, and the canonical tree is still
\* the tree the store opened with).
C38_CanonicalTreeIsTheFile ==
  [][store'.is_open_ =>
       IF exists(fs'.main[store'.path_])
       THEN parse(backend, fs'.main[store'.path_])
              = [err |-> "ok", tree |-> store'.data_]
       ELSE /\ ~(last' # last /\ last'.op = "commit" /\ last'.res = "ok")
            /\ store.is_open_ =>
                 /\ store'.data_ = store.data_
                 /\ store'.path_ = store.path_]_vars

\* a commit has just failed at the rename on an Open store whose file
\* exists: the canonical tree is still the tree of the file, and differs
\* from the snapshot of the transaction
C38_Witness ==
  /\ store.is_open_
  /\ last.op = "commit"
  /\ last.res = "io_failure"
  /\ exists(fs.tmp[store.path_])
  /\ exists(fs.main[store.path_])
  /\ parse(backend, fs.main[store.path_]).tree = store.data_
  /\ txn[1].data_ # store.data_

\* C39: two writers run the commit protocol on the same path with their
\* steps interleaved in any order.  A writer that reports success leaves
\* the complete text of its snapshot at <path>; and once both have
\* finished, the file at <path> holds the complete text of the snapshot
\* of the writer whose rename came last, never an empty, partial or mixed
\* text.
C39_LastWriterWins ==
  [][/\ (/\ last' # last
         /\ last'.op = "save_to_file"
         /\ last'.res = "ok") =>
          fs'.main[store.path_]
            = Bytes(Chunks(backend, txn[last'.t].data_))
     /\ (\A w \in Txns : txn'[w].pc = "done") =>
          \E w \in Txns :
            /\ txn'[w].res = "ok"
            /\ fs'.main[store.path_]
                 = Bytes(Chunks(backend, txn'[w].data_))]_vars

\* C40: a call on a transaction that returns an error allocates no handle:
\* the handle table and the next-handle counter of the transaction are
\* after the call what they were before it; so for child and element on a
\* missing key or index, and for a navigate that fails at any segment of
\* its path.
C40_FailedCallAllocatesNoHandle ==
  [][(/\ last' # last
      /\ last'.t \in Txns
      /\ last'.res # "ok") =>
        /\ txn'[last'.t].handle_map_ = txn[last'.t].handle_map_
        /\ txn'[last'.t].next_handle_ = txn[last'.t].next_handle_]_vars

====
